---- MODULE Spec2Model ----
(***************************************************************************)
(* Verification model of llm_adapter_claw: the circuit breaker, the        *)
(* sliding-window assembler with sanitizer and classifier, and the         *)
(* request-processing pipeline with its forward client.                    *)
(*                                                                         *)
(* The specifications share the variables:                                 *)
(*   SpecBreaker  one CircuitBreaker driven by arbitrary callers and time  *)
(*   SpecWindow   sanitize + assemble applied to every bounded request     *)
(*   SpecClassify classify applied to every bounded request                *)
(*   SpecSanitize sanitize applied to every bounded request                *)
(*   SpecRegistry one ProviderRegistry under the management operations     *)
(*   SpecClient   LLMClient.forward over a registry                        *)
(*   SpecGuarded  breaker-guarded calls of concurrent tasks                *)
(*   SpecRecovery guarded calls and a clock that never stop (fairness)     *)
(*   SpecRetrieve MemoryRetriever.retrieve over the answers of its store   *)
(*   SpecStore    SQLiteVSSStore with its vector index                     *)
(*   SpecTraffic  TrafficAnalyzer.analyze_request and its history          *)
(*   SpecPipe     ProcessingPipeline.process / stream, step by step        *)
(***************************************************************************)
EXTENDS Integers, Sequences, FiniteSets, TLC

VARIABLES
    cfg,        \* CircuitBreaker.config
    cb,         \* CircuitBreaker._state, ._stats and ._half_open_calls
    now,        \* the wall clock read by time.time()
    ticks,      \* how many times the clock advanced
    lastOp,     \* history: the last breaker or registry call and what it returned
    failStreak, \* history: record_failure calls since the last success/reset
    hoSucc,     \* history: record_success calls of the current half-open episode
    hoAdmits,   \* history: can_execute calls answered true in the current half-open episode
    asmCfg,     \* AssemblyConfig of the assembler
    request,    \* the ChatRequest under work
    flags,      \* preserve_flags derived from sanitize(request)
    intent,     \* the intent handed to assemble
    optimized,  \* the ChatRequest assemble returned
    wpc,        \* SpecWindow: position of the sanitize/assemble run
    pipe,       \* ProcessingPipeline construction and per-request locals
    fwd,        \* forward client: attempts and outcome history
    registry,   \* ProviderRegistry._providers and ._default_provider
    lookup,     \* the last get_provider_for_model call and its result
    client,     \* LLMClient.forward: the call in progress
    strat,      \* CircuitBreakerStrategy.execute: the call in progress
    mem,        \* MemoryRetriever: its store's answer and what retrieve returned;
                \* SpecStore: the tables of SQLiteVSSStore
    sanitized,  \* what sanitize returned
    providerList, \* what list_providers returned
    traffic     \* TrafficAnalyzer._metrics_history and the calls that filled it

vars == <<cfg, cb, now, ticks, lastOp, failStreak, hoSucc, hoAdmits,
          asmCfg, request, flags, intent, optimized, wpc, pipe, fwd,
          registry, lookup, client, strat, mem, sanitized, providerList,
          traffic>>

breakerVars == <<cfg, cb, now, ticks, lastOp, failStreak, hoSucc, hoAdmits>>
windowVars == <<asmCfg, request, flags, intent, optimized, wpc>>
pipeVars == <<pipe, fwd>>
auxVars == <<strat, mem, sanitized, providerList, traffic>>
routeVars == <<registry, lookup, client, auxVars>>

(***************************************************************************)
(* Bounds of the model.                                                    *)
(***************************************************************************)
MaxTicks == 4
ExtraFailures == 1
ExtraSuccesses == 1
MaxSmall == 2
MaxLen == 5
MaxPreserveN == 2
MaxMaxMessages == 3
MaxPipeLen == 2
MaxCalls == 4
MaxPipeTicks == 2
MaxClassifyLen == 2
MaxCallers == 2
MaxExecutes == 3
MaxResults == 2
MaxArrivals == 1003
MaxQueried == 3

(***************************************************************************)
(* Circuit breaker (core/circuit_breaker.py).                              *)
(***************************************************************************)
Min(a, b) == IF a <= b THEN a ELSE b

CLOSED == "closed"
OPEN == "open"
HALF_OPEN == "half_open"
CircuitState == {CLOSED, OPEN, HALF_OPEN}

\* CircuitBreakerConfig defaults
DefaultFailureThreshold == 5
DefaultRecoveryTimeout == 60
DefaultHalfOpenMaxCalls == 3
DefaultSuccessThreshold == 2

CircuitBreakerConfig ==
    [failure_threshold |-> DefaultFailureThreshold,
     recovery_timeout |-> DefaultRecoveryTimeout,
     half_open_max_calls |-> DefaultHalfOpenMaxCalls,
     success_threshold |-> DefaultSuccessThreshold]

\* The configuration ProcessingPipeline.__init__ gives the memory breaker.
MemoryFailureThreshold == 3
MemoryRecoveryTimeout == 30

MemoryBreakerConfig ==
    [failure_threshold |-> MemoryFailureThreshold,
     recovery_timeout |-> MemoryRecoveryTimeout,
     half_open_max_calls |-> DefaultHalfOpenMaxCalls,
     success_threshold |-> DefaultSuccessThreshold]

\* Small configurations, every threshold >= 1.
SmallConfigs ==
    [failure_threshold : {1, MaxSmall},
     recovery_timeout : {MaxSmall},
     half_open_max_calls : {1, MaxSmall},
     success_threshold : {1, MaxSmall}]

BreakerConfigs == SmallConfigs \cup {CircuitBreakerConfig}

\* CircuitBreaker.__init__
NewBreaker ==
    [state |-> CLOSED,
     failure_count |-> 0,
     success_count |-> 0,
     last_failure_time |-> 0,
     total_failures |-> 0,
     total_successes |-> 0,
     state_changes |-> 0,
     half_open_calls |-> 0]

\* The state changes, the counters of the state left behind stay
_transition_to_keep_counts(b, new_state) ==
    IF b.state = new_state
    THEN b
    ELSE [b EXCEPT !.state = new_state, !.state_changes = @ + 1]

\* CircuitBreaker._transition_to
_transition_to(b, new_state) ==
    IF b.state = new_state
    THEN b
    ELSE [b EXCEPT !.state = new_state,
                   !.state_changes = @ + 1,
                   !.failure_count = IF new_state \in {CLOSED, HALF_OPEN} THEN 0 ELSE @,
                   !.success_count = 0,
                   !.half_open_calls = 0]

\* CircuitBreaker.can_execute: the returned flag and the breaker afterwards.
can_execute(c, b, t) ==
    CASE b.state = CLOSED -> [ok |-> TRUE, cb |-> b]
      [] b.state = OPEN ->
            IF t - b.last_failure_time >= c.recovery_timeout
            THEN [ok |-> TRUE,
                  cb |-> [_transition_to(b, HALF_OPEN) EXCEPT !.half_open_calls = 0]]
            ELSE [ok |-> FALSE, cb |-> b]
      [] b.state = HALF_OPEN ->
            IF b.half_open_calls < c.half_open_max_calls
            THEN [ok |-> TRUE, cb |-> [b EXCEPT !.half_open_calls = @ + 1]]
            ELSE [ok |-> FALSE, cb |-> b]

\* CircuitBreaker.record_success
record_success_late(c, b) ==
    LET b1 == [b EXCEPT !.total_successes = @ + 1, !.success_count = @ + 1]
    IN  CASE b1.state = HALF_OPEN ->
                IF b1.success_count > c.success_threshold
                THEN _transition_to(b1, CLOSED)
                ELSE b1
          [] b1.state = CLOSED ->
                IF b1.failure_count > 0 THEN [b1 EXCEPT !.failure_count = 0] ELSE b1
          [] OTHER -> b1

record_success(c, b) ==
    LET b1 == [b EXCEPT !.total_successes = @ + 1, !.success_count = @ + 1]
    IN  CASE b1.state = HALF_OPEN ->
                IF b1.success_count >= c.success_threshold
                THEN _transition_to(b1, CLOSED)
                ELSE b1
          [] b1.state = CLOSED ->
                IF b1.failure_count > 0 THEN [b1 EXCEPT !.failure_count = 0] ELSE b1
          [] OTHER -> b1

\* CircuitBreaker.record_failure
record_failure_late(c, b, t) ==
    LET b1 == [b EXCEPT !.total_failures = @ + 1,
                        !.failure_count = @ + 1,
                        !.last_failure_time = t]
    IN  CASE b1.state = HALF_OPEN -> _transition_to(b1, OPEN)
          [] b1.state = CLOSED ->
                IF b1.failure_count > c.failure_threshold
                THEN _transition_to(b1, OPEN)
                ELSE b1
          [] OTHER -> b1

record_failure(c, b, t) ==
    LET b1 == [b EXCEPT !.total_failures = @ + 1,
                        !.failure_count = @ + 1,
                        !.last_failure_time = t]
    IN  CASE b1.state = HALF_OPEN -> _transition_to(b1, OPEN)
          [] b1.state = CLOSED ->
                IF b1.failure_count >= c.failure_threshold
                THEN _transition_to(b1, OPEN)
                ELSE b1
          [] OTHER -> b1

\* CircuitBreakerRegistry.reset_all, for the one registered breaker
reset_all(b) == _transition_to(b, CLOSED)

\* config_api.reset_circuit_breaker
reset_circuit_breaker(b) ==
    [b EXCEPT !.state = CLOSED, !.failure_count = 0, !.success_count = 0]

NoOp == [op |-> "none", ok |-> TRUE]

\* History record of the breaker call just made and what it returned.
Called(op, ok) == [op |-> op, ok |-> ok]

\* History record of a registry call on provider id and what it returned.
CalledWith(op, id, ok) == [op |-> op, ok |-> ok, id |-> id]


\* The clock steps the callers can observe between two calls.
TickSteps(c) == {d \in {1, c.recovery_timeout - 1} : d > 0}

(***************************************************************************)
(* Messages and requests (models/__init__.py).                             *)
(*                                                                         *)
(* A content is a sequence of words; NoneContent stands for content=None.  *)
(* A string field that is None holds NoneStr.  tool_calls and tools are    *)
(* sequences, empty for None (the code only tests them for truthiness).    *)
(***************************************************************************)
NoneContent == <<"<None>">>
NoneStr == "<None>"

\* Python truthiness of an optional str field.
TruthyStr(x) == x /= NoneStr /\ x /= ""

\* Python truthiness of an optional list field or a content.
TruthyList(x) == x /= <<>> /\ x /= NoneContent

\* msg.content or ""
ContentOrEmpty(c) == IF c = NoneContent THEN <<>> ELSE c

\* Words of the model's vocabulary and what the code's substring tests see
\* in them.
CodeWords == {"fence600", "tick"}                 \* sanitizer CODE_MARKERS
ToolWords == {"function"}                           \* sanitizer TOOL_MARKERS
AttachmentWords == {"[file:"}                       \* sanitizer ATTACHMENT_MARKERS
CodingWords == {"fix"}                              \* classifier CODING_KEYWORDS
RetrievalWords == {"remember"}                      \* classifier RETRIEVAL_KEYWORDS
DocumentWords == {"readme"}                         \* classifier DOCUMENT_KEYWORDS

\* len() of a word: fence600 stands for a fenced code block of 600
\* characters, tick for a short inline code span.
WordLen(w) == IF w = "fence600" THEN 600 ELSE 2

RECURSIVE ContentLen(_)
ContentLen(c) == IF c = <<>> THEN 0 ELSE WordLen(Head(c)) + ContentLen(Tail(c))

\* any(marker in content for marker in markers)
Contains(c, words) == \E i \in 1..Len(c) : c[i] \in words

Message(role, content, name, tool_calls, tool_call_id) ==
    [role |-> role, content |-> content, name |-> name,
     tool_calls |-> tool_calls, tool_call_id |-> tool_call_id]

\* ChatRequest defaults of the optional fields the model varies.
ChatRequest(messages, tools) ==
    [model |-> "gpt-4",
     messages |-> messages,
     temperature |-> "0.2",
     max_tokens |-> 256,
     stream |-> FALSE,
     tools |-> tools,
     tool_choice |-> IF tools = <<>> THEN NoneStr ELSE "auto"]

(***************************************************************************)
(* Request sanitizer (core/sanitizer.py).                                  *)
(***************************************************************************)
PreserveCodeLen == 500

\* RequestSanitizer._analyze_message
_analyze_message(msg) ==
    LET content == ContentOrEmpty(msg.content)
        has_code == Contains(content, CodeWords)
        has_tool == \/ TruthyList(msg.tool_calls)
                    \/ TruthyStr(msg.tool_call_id)
                    \/ Contains(content, ToolWords)
    IN  [has_code_block |-> has_code,
         has_tool_call |-> has_tool,
         has_attachment |-> Contains(content, AttachmentWords),
         is_system_prompt |-> msg.role = "system",
         should_preserve |-> has_tool \/ (has_code /\ ContentLen(content) > PreserveCodeLen)]

\* RequestSanitizer.sanitize: flags keyed by the 0-based message index.
sanitize(req) ==
    [idx \in 0..(Len(req.messages) - 1) |-> _analyze_message(req.messages[idx + 1])]

\* pipeline.process: preserve_flags = {idx: flags.should_preserve}
PreserveFlags(flags_map) == [idx \in DOMAIN flags_map |-> flags_map[idx].should_preserve]

(***************************************************************************)
(* Intent classifier (core/classifier.py).                                 *)
(***************************************************************************)
CASUAL == "casual"
CODING == "coding"
RETRIEVAL == "retrieval"
TOOL_USE == "tool_use"
DOCUMENT == "document"
UNKNOWN == "unknown"
Intent == {CASUAL, CODING, RETRIEVAL, TOOL_USE, DOCUMENT, UNKNOWN}

\* RuleBasedClassifier._has_tool_indicators
_has_tool_indicators(req) ==
    \E i \in 1..Len(req.messages) :
        TruthyList(req.messages[i].tool_calls) \/ TruthyStr(req.messages[i].tool_call_id)

\* for msg in reversed(request.messages): if msg.role == "user": ... break
LastUserIndex(msgs) ==
    LET U == {i \in 1..Len(msgs) : msgs[i].role = "user"}
    IN  IF U = {} THEN 0 ELSE CHOOSE i \in U : \A j \in U : j <= i

\* str.lower() on the words of the vocabulary that have capitals.
LowerWord(w) ==
    CASE w = "FIX" -> "fix"
      [] w = "Remember" -> "remember"
      [] OTHER -> w

\* content.lower()
Lower(c) == [k \in 1..Len(c) |-> LowerWord(c[k])]

\* RuleBasedClassifier.classify
classify_retrieval_first(req) ==
    LET k == LastUserIndex(req.messages)
        last_user_msg == IF k = 0 THEN <<>> ELSE ContentOrEmpty(req.messages[k].content)
        content_lower == Lower(last_user_msg)
    IN  IF last_user_msg = <<>> THEN UNKNOWN
        ELSE IF TruthyList(req.tools) \/ _has_tool_indicators(req) THEN TOOL_USE
        ELSE IF Contains(content_lower, RetrievalWords) THEN RETRIEVAL
        ELSE IF Contains(content_lower, CodingWords) THEN CODING
        ELSE IF Contains(content_lower, DocumentWords) THEN DOCUMENT
        ELSE CASUAL

classify(req) ==
    LET k == LastUserIndex(req.messages)
        last_user_msg == IF k = 0 THEN <<>> ELSE ContentOrEmpty(req.messages[k].content)
        content_lower == Lower(last_user_msg)
    IN  IF last_user_msg = <<>> THEN UNKNOWN
        ELSE IF TruthyList(req.tools) \/ _has_tool_indicators(req) THEN TOOL_USE
        ELSE IF Contains(content_lower, CodingWords) THEN CODING
        ELSE IF Contains(content_lower, RetrievalWords) THEN RETRIEVAL
        ELSE IF Contains(content_lower, DocumentWords) THEN DOCUMENT
        ELSE CASUAL

(***************************************************************************)
(* Sliding window and assembler (core/sliding_window.py, assembler.py).    *)
(***************************************************************************)
DefaultPreserveLastN == 2
DefaultMaxMessages == 20

\* AssemblyConfig()
AssemblyConfig ==
    [preserve_last_n |-> DefaultPreserveLastN, max_messages |-> DefaultMaxMessages]

\* The window multiplier in halves: 1.0 is 2/2 and 1.5 is 3/2, so that
\* int(n * window_mult) is (n * mult) \div 2.
MultStandard == 2
MultRetrieval == 3
IntTimes(n, mult) == (n * mult) \div 2

\* Python messages[-k:]
LastSlice(s, k) ==
    IF k = 0 THEN s
    ELSE IF k > 0 THEN (IF k >= Len(s) THEN s ELSE SubSeq(s, Len(s) - k + 1, Len(s)))
    ELSE SubSeq(s, Min(-k, Len(s)) + 1, Len(s))

\* Python messages[start:] for a 0-based start >= 0
FromIndex(s, start) == SubSeq(s, start + 1, Len(s))

\* SlidingWindow._truncate
_truncate(messages, max_msgs) ==
    LET has_system == messages[1].role = "system"
        keep_count == max_msgs - (IF has_system THEN 1 ELSE 0)
        recent == LastSlice(messages, keep_count)
    IN  (IF has_system THEN <<messages[1]>> ELSE <<>>) \o recent

\* preserve_flags.get(idx, False)
FlagAt(preserve_flags, idx) ==
    IF idx \in DOMAIN preserve_flags THEN preserve_flags[idx] ELSE FALSE

\* for idx in range(1, recent_start): if flagged: preserved.append(messages[idx])
RECURSIVE FlaggedMiddle(_, _, _, _)
FlaggedMiddle(messages, preserve_flags, idx, recent_start) ==
    IF idx >= recent_start THEN <<>>
    ELSE (IF FlagAt(preserve_flags, idx) THEN <<messages[idx + 1]>> ELSE <<>>)
            \o FlaggedMiddle(messages, preserve_flags, idx + 1, recent_start)

Max(a, b) == IF a >= b THEN a ELSE b

\* recent_start of SlidingWindow.apply (0-based)
RecentStart_unscaled(config, n, window_mult) ==
    Max(1, n - config.preserve_last_n)

RecentStart(config, n, window_mult) ==
    Max(1, n - IntTimes(config.preserve_last_n, window_mult))

\* SlidingWindow.apply
apply(config, messages, preserve_flags, window_mult) ==
    IF Len(messages) <= config.preserve_last_n + 1 THEN messages
    ELSE
        LET max_msgs == IntTimes(config.max_messages, window_mult)
            system == IF messages[1].role = "system" THEN <<messages[1]>> ELSE <<>>
            recent_start == RecentStart(config, Len(messages), window_mult)
            preserved == system
                            \o FlaggedMiddle(messages, preserve_flags, 1, recent_start)
                            \o FromIndex(messages, recent_start)
        IN  IF Len(preserved) > max_msgs
            THEN _truncate(preserved, max_msgs)
            ELSE preserved

\* ContextAssembler._select_strategy with the three strategies
_select_strategy(i) == IF i = RETRIEVAL THEN MultRetrieval ELSE MultStandard

\* ContextAssembler.assemble
assemble_no_passthrough(config, req, i, preserve_flags) ==
    [req EXCEPT !.messages = apply(config, req.messages, preserve_flags, _select_strategy(i))]

assemble(config, req, i, preserve_flags) ==
    IF i = TOOL_USE THEN req
    ELSE [model |-> req.model,
          messages |-> apply(config, req.messages, preserve_flags, _select_strategy(i)),
          temperature |-> req.temperature,
          max_tokens |-> req.max_tokens,
          stream |-> req.stream,
          tools |-> req.tools,
          tool_choice |-> req.tool_choice]

(***************************************************************************)
(* Processing pipeline (core/pipeline.py) and upstream client              *)
(* (core/proxy_client.py).                                                 *)
(***************************************************************************)
DefaultCircuitBreakerTimeout == 60
ForwardAttempts == 3

\* The Settings fields the pipeline and its factories read, and the two
\* breaker fields (circuit_breaker_threshold, default 5, and
\* circuit_breaker_timeout) that nothing reads.
Settings(preserve_n, optimization, threshold) ==
    [preserve_last_n_messages |-> preserve_n,
     optimization_enabled |-> optimization,
     circuit_breaker_threshold |-> threshold,
     circuit_breaker_timeout |-> DefaultCircuitBreakerTimeout]

\* create_assembler: preserve_last_n comes from the settings, max_messages
\* keeps its default.
create_assembler(settings) ==
    [preserve_last_n |-> settings.preserve_last_n_messages,
     max_messages |-> DefaultMaxMessages]

\* The three ways ProcessingPipeline.__init__ ends: "injected" (a retriever
\* was passed in), "settings" (memory_enabled, retriever and breaker built
\* here), "absent" (neither).
Constructions == {"absent", "settings", "injected"}

\* self.memory_retriever is set (truthy) after __init__
HasRetriever(ctor) == ctor /= "absent"

\* __init__ assigned the attribute self._memory_circuit
HasCircuitAttribute(ctor) == ctor /= "injected"

\* self._memory_circuit holds a breaker
HasCircuit(ctor) == ctor = "settings"

\* rec with key set to val when present holds: **({key: val} if val else {})
WithKey(rec, key, present, val) == IF present THEN rec @@ (key :> val) ELSE rec

\* One entry of payload["messages"] in _to_payload
PayloadMessage(m) ==
    WithKey([role |-> m.role, content |-> m.content], "name", TruthyStr(m.name), m.name)

\* ProcessingPipeline._to_payload
_to_payload(req) ==
    WithKey(WithKey([model |-> req.model,
                     messages |-> [i \in 1..Len(req.messages) |-> PayloadMessage(req.messages[i])],
                     temperature |-> req.temperature,
                     max_tokens |-> req.max_tokens,
                     stream |-> req.stream],
                    "tools", TruthyList(req.tools), req.tools),
            "tool_choice", TruthyStr(req.tool_choice), req.tool_choice)

\* Index (1-based) of the first system message, 0 when there is none.
SystemIdx(msgs) ==
    IF \E i \in 1..Len(msgs) : msgs[i].role = "system"
    THEN CHOOSE i \in 1..Len(msgs) :
            /\ msgs[i].role = "system"
            /\ \A k \in 1..(i - 1) : msgs[k].role /= "system"
    ELSE 0

\* process(): injection of the memory context into the optimized request.
InjectMemory(opt, memory_context) ==
    IF ~(TruthyList(memory_context) /\ opt.messages /= <<>>) THEN opt
    ELSE LET system_idx == SystemIdx(opt.messages)
         IN  IF system_idx /= 0
             THEN [opt EXCEPT !.messages[system_idx] =
                        Message("system",
                                ContentOrEmpty(@.content) \o <<"\n\n">> \o memory_context,
                                NoneStr, <<>>, NoneStr)]
             ELSE [opt EXCEPT !.messages =
                        <<Message("system", memory_context, NoneStr, <<>>, NoneStr)>> \o @]

\* process() step 4 up to the payload: assemble when optimization is
\* enabled, then inject.
Optimize(settings, config, req, i, preserve_flags, memory_context) ==
    InjectMemory(IF settings.optimization_enabled
                 THEN assemble(config, req, i, preserve_flags)
                 ELSE req,
                 memory_context)

\* stream(): assemble when optimization is enabled; no injection.
OptimizeStream(settings, config, req, i, preserve_flags) ==
    IF settings.optimization_enabled
    THEN assemble(config, req, i, preserve_flags)
    ELSE req

(***************************************************************************)
(* Provider registry (providers/registry.py).                              *)
(*                                                                         *)
(* A model name is the sequence of its parts between colons:               *)
(* <<"kimi", "moon">> is "kimi:moon".  _providers is an insertion-ordered  *)
(* dict, here the sequence of its values.                                  *)
(***************************************************************************)
DefaultMaxRetries == 3

\* An empty dict.
EmptyDict == [k \in {} |-> 0]

\* None where a provider is expected.
NoProvider == [id |-> NoneStr]

\* LLMProvider(...) with the fields the routing and the client read.
LLMProvider(id, models, enabled, max_retries, extra_body) ==
    [id |-> id,
     base_url |-> <<"https://", id, "/v1">>,
     models |-> models,
     max_retries |-> max_retries,
     enabled |-> enabled,
     api_key |-> "",
     extra_body |-> extra_body]

\* LLMProvider.to_dict with the secret left in
to_dict_with_key(p) ==
    [id |-> p.id,
     base_url |-> p.base_url,
     models |-> p.models,
     max_retries |-> p.max_retries,
     enabled |-> p.enabled,
     api_key |-> p.api_key,
     has_api_key |-> p.api_key /= ""]

\* LLMProvider.to_dict, over the fields of the model
to_dict(p) ==
    [id |-> p.id,
     base_url |-> p.base_url,
     models |-> p.models,
     max_retries |-> p.max_retries,
     enabled |-> p.enabled,
     has_api_key |-> p.api_key /= ""]

\* ProviderRegistry.__init__
ProviderRegistry == [providers |-> <<>>, default |-> NoneStr]

\* Position of the provider stored under id, 0 when id is no key.
IndexOfProvider(reg, id) ==
    IF \E k \in 1..Len(reg.providers) : reg.providers[k].id = id
    THEN CHOOSE k \in 1..Len(reg.providers) : reg.providers[k].id = id
    ELSE 0

\* ":" in model
HasPrefix(model) == Len(model) > 1

\* model.split(":", 1)[1]
StripPrefix(model) == Tail(model)

\* model in provider.models
ListsModel(provider, model) ==
    \E k \in 1..Len(provider.models) : provider.models[k] = model

\* ProviderRegistry.add_provider
add_provider(reg, provider, set_default) ==
    LET k == IndexOfProvider(reg, provider.id)
    IN  [providers |-> IF k = 0 THEN Append(reg.providers, provider)
                       ELSE [reg.providers EXCEPT ![k] = provider],
         default |-> IF set_default \/ reg.default = NoneStr
                     THEN provider.id ELSE reg.default]

\* What remove_provider and set_default return
KnownProvider(reg, provider_id) == IndexOfProvider(reg, provider_id) /= 0

\* The default is left as it was when the default provider is removed
remove_provider_keep_default(reg, provider_id) ==
    IF IndexOfProvider(reg, provider_id) = 0 THEN reg
    ELSE [reg EXCEPT !.providers = SelectSeq(reg.providers, LAMBDA q : q.id /= provider_id)]

\* ProviderRegistry.remove_provider
remove_provider(reg, provider_id) ==
    IF IndexOfProvider(reg, provider_id) = 0 THEN reg
    ELSE LET rest == SelectSeq(reg.providers, LAMBDA q : q.id /= provider_id)
         IN  [providers |-> rest,
              default |-> IF reg.default = provider_id
                          THEN (IF rest = <<>> THEN NoneStr ELSE rest[1].id)
                          ELSE reg.default]

\* ProviderRegistry.set_default
set_default(reg, provider_id) ==
    IF IndexOfProvider(reg, provider_id) = 0 THEN reg
    ELSE [reg EXCEPT !.default = provider_id]

\* ProviderRegistry.get_provider
get_provider(reg, provider_id) ==
    LET id == IF provider_id = NoneStr THEN reg.default ELSE provider_id
        k == IndexOfProvider(reg, id)
    IN  IF k = 0 THEN NoProvider ELSE reg.providers[k]

\* ProviderRegistry.list_providers
list_providers(reg) == [k \in 1..Len(reg.providers) |-> to_dict(reg.providers[k])]

\* config_api.update_provider with enabled and models in the request
update_provider(reg, provider_id, enabled, models) ==
    LET k == IndexOfProvider(reg, provider_id)
    IN  IF k = 0 THEN reg
        ELSE [reg EXCEPT !.providers[k].enabled = enabled,
                         !.providers[k].models = models]

\* ProviderRegistry.get_provider_for_model
get_provider_for_model_list_first(reg, model) ==
    LET byPrefix == IF HasPrefix(model) THEN get_provider(reg, Head(model)) ELSE NoProvider
        listing == {k \in 1..Len(reg.providers) :
                        reg.providers[k].enabled /\ ListsModel(reg.providers[k], model)}
    IN  IF listing /= {}
        THEN reg.providers[CHOOSE k \in listing : \A j \in listing : k <= j]
        ELSE IF byPrefix /= NoProvider /\ byPrefix.enabled THEN byPrefix
        ELSE get_provider(reg, NoneStr)

get_provider_for_model(reg, model) ==
    LET byPrefix == IF HasPrefix(model) /\ IndexOfProvider(reg, Head(model)) /= 0
                    THEN reg.providers[IndexOfProvider(reg, Head(model))]
                    ELSE NoProvider
        listing == {k \in 1..Len(reg.providers) :
                        reg.providers[k].enabled /\ ListsModel(reg.providers[k], model)}
    IN  IF byPrefix /= NoProvider /\ byPrefix.enabled THEN byPrefix
        ELSE IF listing /= {}
        THEN reg.providers[CHOOSE k \in listing : \A j \in listing : k <= j]
        ELSE get_provider(reg, NoneStr)

(***************************************************************************)
(* Upstream client (core/proxy_client.py): routing, request building and   *)
(* the retried forward.                                                    *)
(***************************************************************************)
\* settings.llm_base_url, used when no provider is routed
SettingsBaseUrl == <<"https://", "settings", "/v1">>

\* LLMClient._get_provider; a client without registry and a client with an
\* empty one both get None.
_get_provider(reg, model) == get_provider_for_model(reg, model)

\* LLMClient._build_request: the url and the body (headers left out)
_build_request_always_strip(payload, provider) ==
    LET base_url == IF provider /= NoProvider THEN provider.base_url ELSE SettingsBaseUrl
        stripped == IF provider /= NoProvider /\ HasPrefix(payload.model)
                    THEN [payload EXCEPT !.model = StripPrefix(@)]
                    ELSE payload
        body == IF provider /= NoProvider /\ provider.extra_body /= EmptyDict
                THEN provider.extra_body @@ stripped
                ELSE stripped
    IN  [url |-> base_url \o <<"/chat/completions">>, body |-> body]

_build_request(payload, provider) ==
    LET base_url == IF provider /= NoProvider THEN provider.base_url ELSE SettingsBaseUrl
        stripped == IF /\ provider /= NoProvider
                       /\ HasPrefix(payload.model)
                       /\ Head(payload.model) = provider.id
                    THEN [payload EXCEPT !.model = StripPrefix(@)]
                    ELSE payload
        body == IF provider /= NoProvider /\ provider.extra_body /= EmptyDict
                THEN provider.extra_body @@ stripped
                ELSE stripped
    IN  [url |-> base_url \o <<"/chat/completions">>, body |-> body]

\* How one upstream attempt ends: a 2xx response, raise_for_status on a 4xx
\* or a 5xx, or a transport error raised by client.post.
Statuses == {"2xx", "4xx", "5xx", "transport"}

(***************************************************************************)
(* Memory retriever (memory/retriever.py). Similarities, distances and the *)
(* threshold are counted in hundredths: 50 stands for 0.5.                 *)
(***************************************************************************)
DefaultSimilarityThreshold == 50

\* dict.get(key, default)
Get(r, key, default) == IF key \in DOMAIN r THEN r[key] ELSE default

\* The test of the list comprehension of MemoryRetriever.retrieve
PassesFilter(r, similarity_threshold) ==
    \/ Get(r, "similarity", 100) >= similarity_threshold
    \/ Get(r, "distance", 0) <= 100 - similarity_threshold

\* MemoryRetriever.retrieve with include_metadata=True, from the answer of
\* store.search on
retrieve(results, similarity_threshold) ==
    LET Keep(r) == PassesFilter(r, similarity_threshold)
    IN  SelectSeq(results, Keep)

(***************************************************************************)
(* Traffic analyzer (metrics/traffic_analyzer.py) and its token counter    *)
(* (utils/token_counter.py).                                               *)
(***************************************************************************)
\* TrafficAnalyzer._max_history
MaxHistory == 1000

\* ApproximateTokenCounter.count on a text without CJK characters
TokenCount(content) ==
    IF ContentLen(content) = 0 THEN 0 ELSE (ContentLen(content) \div 4) + 1

\* TrafficAnalyzer._count_message_tokens
RECURSIVE _count_message_tokens(_)
_count_message_tokens(messages) ==
    IF messages = <<>> THEN 0
    ELSE TokenCount(ContentOrEmpty(Head(messages).content)) + 4
            + _count_message_tokens(Tail(messages))

\* optimization_applied follows optimization_enabled alone
RequestMetrics_applied_when_enabled(request_id, model, original_messages, optimized_messages, intent_value, optimization_enabled) ==
    LET original_tokens == _count_message_tokens(original_messages)
        optimized_tokens == _count_message_tokens(optimized_messages)
        tokens_saved == Max(0, original_tokens - optimized_tokens)
    IN  [request_id |-> request_id,
         model |-> model,
         original_tokens |-> original_tokens,
         optimized_tokens |-> optimized_tokens,
         tokens_saved |-> tokens_saved,
         intent |-> intent_value,
         optimization_applied |-> optimization_enabled]

\* The RequestMetrics analyze_request builds
RequestMetrics(request_id, model, original_messages, optimized_messages, intent_value, optimization_enabled) ==
    LET original_tokens == _count_message_tokens(original_messages)
        optimized_tokens == _count_message_tokens(optimized_messages)
        tokens_saved == Max(0, original_tokens - optimized_tokens)
    IN  [request_id |-> request_id,
         model |-> model,
         original_tokens |-> original_tokens,
         optimized_tokens |-> optimized_tokens,
         tokens_saved |-> tokens_saved,
         intent |-> intent_value,
         optimization_applied |-> optimization_enabled /\ tokens_saved > 0]

\* The newest entry is dropped
Store_drop_newest(history, metrics) ==
    LET appended == Append(history, metrics)
    IN  IF Len(appended) > MaxHistory
        THEN SubSeq(appended, 1, Len(appended) - 1)
        ELSE appended

\* analyze_request, "Store metrics": append, then pop(0) beyond _max_history
Store(history, metrics) ==
    LET appended == Append(history, metrics)
    IN  IF Len(appended) > MaxHistory THEN Tail(appended) ELSE appended

(***************************************************************************)
(* Placeholders of the variables a specification does not use.             *)
(***************************************************************************)
NoRequest == [model |-> "none", messages |-> <<>>, tools |-> <<>>]
NoAsmCfg == [preserve_last_n |-> 0, max_messages |-> 0]
NoPipe == [ctor |-> "none"]
NoFwd == [attempts |-> 0]
NoPayload == [model |-> "none", messages |-> <<>>]

WindowIdle ==
    /\ asmCfg = NoAsmCfg
    /\ request = NoRequest
    /\ flags = <<>>
    /\ intent = "none"
    /\ optimized = NoRequest
    /\ wpc = "off"

PipeIdle ==
    /\ pipe = NoPipe
    /\ fwd = NoFwd

NoRegistry == [providers |-> <<>>, default |-> NoneStr]
NoLookup == [model |-> <<>>, result |-> [id |-> "none"]]
NoClient == [pc |-> "off"]
NoStrategy == [pc |-> "off"]
NoRetriever == [pc |-> "off"]
NoFlagsMap == <<>>
NoListing == <<>>
NoTraffic == [pc |-> "off"]

AuxIdle ==
    /\ strat = NoStrategy
    /\ mem = NoRetriever
    /\ sanitized = NoFlagsMap
    /\ providerList = NoListing
    /\ traffic = NoTraffic

RouteIdle ==
    /\ registry = NoRegistry
    /\ lookup = NoLookup
    /\ client = NoClient
    /\ AuxIdle

BreakerIdle ==
    /\ cfg = CircuitBreakerConfig
    /\ cb = NewBreaker
    /\ now = 0
    /\ ticks = 0
    /\ lastOp = NoOp
    /\ failStreak = 0
    /\ hoSucc = 0
    /\ hoAdmits = 0

(***************************************************************************)
(* SpecBreaker: one breaker, its callers and the clock.                    *)
(***************************************************************************)
InitBreaker ==
    /\ cfg \in BreakerConfigs
    /\ cb = NewBreaker
    /\ now = 0
    /\ ticks = 0
    /\ lastOp = NoOp
    /\ failStreak = 0
    /\ hoSucc = 0
    /\ hoAdmits = 0
    /\ WindowIdle
    /\ PipeIdle
    /\ RouteIdle

CanExecute ==
    LET r == can_execute(cfg, cb, now)
    IN  /\ cb' = r.cb
        /\ lastOp' = Called("can_execute", r.ok)
        /\ hoSucc' = IF r.cb.state = HALF_OPEN THEN hoSucc ELSE 0
        /\ hoAdmits' = IF r.cb.state /= HALF_OPEN THEN 0
                       ELSE IF ~r.ok THEN hoAdmits
                       ELSE IF cb.state = HALF_OPEN THEN hoAdmits + 1
                       ELSE 1
        /\ UNCHANGED <<routeVars, cfg, now, ticks, failStreak, windowVars, pipeVars>>

RecordSuccess ==
    /\ cb.total_successes < cfg.success_threshold + ExtraSuccesses
    /\ cb' = record_success(cfg, cb)
    /\ lastOp' = Called("record_success", TRUE)
    /\ failStreak' = 0
    /\ hoSucc' = IF cb.state = HALF_OPEN /\ cb'.state = HALF_OPEN THEN hoSucc + 1 ELSE 0
    /\ hoAdmits' = IF cb'.state = HALF_OPEN THEN hoAdmits ELSE 0
    /\ UNCHANGED <<routeVars, cfg, now, ticks, windowVars, pipeVars>>

RecordFailure ==
    /\ cb.total_failures < cfg.failure_threshold + ExtraFailures
    /\ cb' = record_failure(cfg, cb, now)
    /\ lastOp' = Called("record_failure", TRUE)
    /\ failStreak' = Min(failStreak + 1, cfg.failure_threshold)
    /\ hoSucc' = 0
    /\ hoAdmits' = IF cb'.state = HALF_OPEN THEN hoAdmits ELSE 0
    /\ UNCHANGED <<routeVars, cfg, now, ticks, windowVars, pipeVars>>

ResetAll ==
    /\ cb' = reset_all(cb)
    /\ lastOp' = Called("reset_all", TRUE)
    /\ failStreak' = 0
    /\ hoSucc' = 0
    /\ hoAdmits' = IF cb'.state = HALF_OPEN THEN hoAdmits ELSE 0
    /\ UNCHANGED <<routeVars, cfg, now, ticks, windowVars, pipeVars>>

ResetBreaker ==
    /\ cb' = reset_circuit_breaker(cb)
    /\ lastOp' = Called("reset_circuit_breaker", TRUE)
    /\ failStreak' = 0
    /\ hoSucc' = 0
    /\ hoAdmits' = IF cb'.state = HALF_OPEN THEN hoAdmits ELSE 0
    /\ UNCHANGED <<routeVars, cfg, now, ticks, windowVars, pipeVars>>

Tick ==
    /\ ticks < MaxTicks
    /\ \E d \in TickSteps(cfg) : now' = now + d
    /\ ticks' = ticks + 1
    /\ lastOp' = NoOp
    /\ UNCHANGED <<routeVars, cfg, cb, failStreak, hoSucc, hoAdmits, windowVars, pipeVars>>

NextBreaker ==
    \/ CanExecute
    \/ RecordSuccess
    \/ RecordFailure
    \/ ResetAll
    \/ ResetBreaker
    \/ Tick

SpecBreaker == InitBreaker /\ [][NextBreaker]_vars

(***************************************************************************)
(* SpecWindow: sanitize and assemble on every bounded request.             *)
(***************************************************************************)
\* The messages requests are built from; the position word makes every
\* message of a request distinct, like u1, a1, u2 ... of a conversation.
WindowKinds == {"S", "U", "A", "C", "T"}

MkMsg(kind, i) ==
    CASE kind = "S" -> Message("system", <<"be", ToString(i)>>, NoneStr, <<>>, NoneStr)
      [] kind = "U" -> Message("user", <<"hi", ToString(i)>>, NoneStr, <<>>, NoneStr)
      [] kind = "A" -> Message("assistant", <<"ok", ToString(i)>>, NoneStr, <<>>, NoneStr)
      [] kind = "C" -> Message("user", <<"fence600", ToString(i)>>, NoneStr, <<>>, NoneStr)
      [] kind = "R" -> Message("user", <<"remember", ToString(i)>>, NoneStr, <<>>, NoneStr)
      [] kind = "N" -> Message("user", <<"hi", ToString(i)>>, "bob", <<>>, NoneStr)
      [] kind = "T" -> Message("assistant", NoneContent, NoneStr, <<"call", ToString(i)>>, NoneStr)
      [] kind = "L" -> Message("tool", <<"result", ToString(i)>>, NoneStr, <<>>, "call")
      [] kind = "K" -> Message("user", <<"fix", ToString(i)>>, NoneStr, <<>>, NoneStr)
      [] kind = "D" -> Message("user", <<"readme", ToString(i)>>, NoneStr, <<>>, NoneStr)
      [] kind = "KR" -> Message("user", <<"remember", "fix", ToString(i)>>, NoneStr, <<>>, NoneStr)
      [] kind = "RD" -> Message("user", <<"readme", "Remember", ToString(i)>>, NoneStr, <<>>, NoneStr)
      [] kind = "F" -> Message("user", <<"FIX", ToString(i)>>, NoneStr, <<>>, NoneStr)
      [] kind = "E" -> Message("user", <<>>, NoneStr, <<>>, NoneStr)
      [] kind = "Z" -> Message("user", NoneContent, NoneStr, <<>>, NoneStr)
      [] kind = "P" -> Message("user", <<"function", ToString(i)>>, NoneStr, <<>>, NoneStr)
      [] kind = "B" -> Message("user", <<"tick", ToString(i)>>, NoneStr, <<>>, NoneStr)

MessagesOf(kinds) == [i \in 1..Len(kinds) |-> MkMsg(kinds[i], i)]

\* Sequences of kinds in which a system message stands only at the front.
KindSeqs(K, n) ==
    {ks \in UNION {[1..m -> K] : m \in 1..n} : \A i \in 2..Len(ks) : ks[i] /= "S"}

ToolLists == {<<>>, <<"f">>}

\* The conversation system, u1, a1, ..., u5, a5, u6 with nothing flagged.
ExampleConversation ==
    ChatRequest(MessagesOf(<<"S", "U", "A", "U", "A", "U", "A", "U", "A", "U", "A", "U">>), <<>>)

WindowRequests ==
    {ChatRequest(MessagesOf(ks), tl) : ks \in KindSeqs(WindowKinds, MaxLen), tl \in ToolLists}
        \cup {ExampleConversation}

AsmConfigs ==
    [preserve_last_n : 0..MaxPreserveN, max_messages : 1..MaxMaxMessages]
        \cup {AssemblyConfig}

InitWindow ==
    /\ asmCfg \in AsmConfigs
    /\ request \in WindowRequests
    /\ flags = <<>>
    /\ intent = "none"
    /\ optimized = NoRequest
    /\ wpc = "new"
    /\ BreakerIdle
    /\ PipeIdle
    /\ RouteIdle

Sanitize ==
    /\ wpc = "new"
    /\ flags' = PreserveFlags(sanitize(request))
    /\ wpc' = "sanitized"
    /\ UNCHANGED <<routeVars, asmCfg, request, intent, optimized, breakerVars, pipeVars>>

Assemble ==
    /\ wpc = "sanitized"
    /\ \E i \in Intent :
        /\ intent' = i
        /\ optimized' = assemble(asmCfg, request, i, flags)
    /\ wpc' = "assembled"
    /\ UNCHANGED <<routeVars, asmCfg, request, flags, breakerVars, pipeVars>>

NextWindow ==
    \/ Sanitize
    \/ Assemble

SpecWindow == InitWindow /\ [][NextWindow]_vars

(***************************************************************************)
(* SpecClassify: classify applied to every bounded request.                *)
(***************************************************************************)
ClassifyKinds == {"S", "U", "A", "K", "R", "D", "KR", "RD", "F", "E", "Z", "T", "L"}

ClassifyRequests ==
    {ChatRequest(MessagesOf(ks), tl) :
        ks \in KindSeqs(ClassifyKinds, MaxClassifyLen), tl \in ToolLists}

InitClassify ==
    /\ request \in ClassifyRequests
    /\ wpc = "new"
    /\ asmCfg = NoAsmCfg
    /\ flags = <<>>
    /\ intent = "none"
    /\ optimized = NoRequest
    /\ BreakerIdle
    /\ PipeIdle
    /\ RouteIdle

Classify ==
    /\ wpc = "new"
    /\ intent' = classify(request)
    /\ wpc' = "classified"
    /\ UNCHANGED <<asmCfg, request, flags, optimized, breakerVars, pipeVars, routeVars>>

NextClassify == Classify

SpecClassify == InitClassify /\ [][NextClassify]_vars

(***************************************************************************)
(* SpecSanitize: sanitize applied to every bounded request.                *)
(***************************************************************************)
SanitizeKinds == {"S", "U", "C", "B", "P", "T", "L", "Z"}

SanitizeRequests ==
    {ChatRequest(MessagesOf(ks), tl) :
        ks \in KindSeqs(SanitizeKinds, MaxClassifyLen), tl \in ToolLists}

InitSanitize ==
    /\ request \in SanitizeRequests
    /\ wpc = "new"
    /\ asmCfg = NoAsmCfg
    /\ flags = <<>>
    /\ intent = "none"
    /\ optimized = NoRequest
    /\ BreakerIdle
    /\ PipeIdle
    /\ RouteIdle

\* flags_map = sanitizer.sanitize(request)
SanitizeRequest ==
    /\ wpc = "new"
    /\ sanitized' = sanitize(request)
    /\ wpc' = "sanitized"
    /\ UNCHANGED <<asmCfg, request, flags, intent, optimized, breakerVars, pipeVars,
                   registry, lookup, client, strat, mem, providerList, traffic>>

NextSanitize == SanitizeRequest

SpecSanitize == InitSanitize /\ [][NextSanitize]_vars

(***************************************************************************)
(* SpecRegistry: one ProviderRegistry under the management operations and  *)
(* model lookups.                                                          *)
(***************************************************************************)
ProviderIds == {"kimi", "openai"}

ModelNames ==
    {<<"gpt">>, <<"kimi", "moon">>, <<"kimi", "moon", "v1">>, <<"glm", "x">>}

ModelLists == {<<>>, << <<"gpt">> >>, << <<"gpt">>, <<"kimi", "moon">> >>}

ApiKeys == {"", "sk-1", "sk-2"}

RegistryProviders ==
    {[LLMProvider(id, ms, e, DefaultMaxRetries, EmptyDict) EXCEPT !.api_key = key] :
        id \in ProviderIds, ms \in ModelLists, e \in BOOLEAN, key \in ApiKeys}

InitRegistry ==
    /\ registry = ProviderRegistry
    /\ lookup = NoLookup
    /\ client = NoClient
    /\ AuxIdle
    /\ BreakerIdle
    /\ WindowIdle
    /\ PipeIdle

AddProvider ==
    /\ \E provider \in RegistryProviders, sd \in BOOLEAN :
            /\ registry' = add_provider(registry, provider, sd)
            /\ lastOp' = CalledWith("add_provider", provider.id, TRUE)
    /\ lookup' = NoLookup
    /\ providerList' = NoListing
    /\ UNCHANGED <<client, strat, mem, sanitized, traffic, cfg, cb, now, ticks, failStreak,
                   hoSucc, hoAdmits, windowVars, pipeVars>>

RemoveProvider ==
    /\ \E id \in ProviderIds :
            /\ registry' = remove_provider(registry, id)
            /\ lastOp' = CalledWith("remove_provider", id, KnownProvider(registry, id))
    /\ lookup' = NoLookup
    /\ providerList' = NoListing
    /\ UNCHANGED <<client, strat, mem, sanitized, traffic, cfg, cb, now, ticks, failStreak,
                   hoSucc, hoAdmits, windowVars, pipeVars>>

SetDefault ==
    /\ \E id \in ProviderIds :
            /\ registry' = set_default(registry, id)
            /\ lastOp' = CalledWith("set_default", id, KnownProvider(registry, id))
    /\ lookup' = NoLookup
    /\ providerList' = NoListing
    /\ UNCHANGED <<client, strat, mem, sanitized, traffic, cfg, cb, now, ticks, failStreak,
                   hoSucc, hoAdmits, windowVars, pipeVars>>

UpdateProvider ==
    /\ \E id \in ProviderIds, e \in BOOLEAN, ms \in ModelLists :
            registry' = update_provider(registry, id, e, ms)
    /\ lookup' = NoLookup
    /\ providerList' = NoListing
    /\ lastOp' = NoOp
    /\ UNCHANGED <<client, strat, mem, sanitized, traffic, cfg, cb, now, ticks, failStreak,
                   hoSucc, hoAdmits, windowVars, pipeVars>>

GetProviderForModel ==
    /\ \E model \in ModelNames :
            lookup' = [model |-> model, result |-> get_provider_for_model(registry, model)]
    /\ lastOp' = NoOp
    /\ UNCHANGED <<registry, client, auxVars, cfg, cb, now, ticks, failStreak, hoSucc, hoAdmits,
                   windowVars, pipeVars>>

\* GET /providers
ListProviders ==
    /\ providerList' = list_providers(registry)
    /\ lastOp' = NoOp
    /\ UNCHANGED <<registry, lookup, client, strat, mem, sanitized, traffic,
                   cfg, cb, now, ticks, failStreak, hoSucc, hoAdmits, windowVars, pipeVars>>

NextRegistry ==
    \/ ListProviders
    \/ AddProvider
    \/ RemoveProvider
    \/ SetDefault
    \/ UpdateProvider
    \/ GetProviderForModel

SpecRegistry == InitRegistry /\ [][NextRegistry]_vars

(***************************************************************************)
(* SpecClient: one LLMClient over a registry, serving forward calls.       *)
(***************************************************************************)
RetryCounts == {0, DefaultMaxRetries, 5}

ExtraBodies == {EmptyDict, [top_p |-> "0.9"], [model |-> <<"forced">>]}

ClientProviders ==
    {LLMProvider(id, ms, e, r, x) :
        id \in ProviderIds, ms \in {<<>>, << <<"gpt">> >>}, e \in BOOLEAN,
        r \in RetryCounts, x \in ExtraBodies}

\* The registries a client is built over: empty, one provider, or openai
\* followed by kimi.
ClientRegistries ==
    {ProviderRegistry}
        \cup {add_provider(ProviderRegistry, p, FALSE) : p \in ClientProviders}
        \cup {add_provider(add_provider(ProviderRegistry, p, FALSE), q, FALSE) :
                p \in {x \in ClientProviders : x.id = "openai"},
                q \in {x \in ClientProviders : x.id = "kimi"}}

ClientPayloads == {[model |-> m, stream |-> FALSE] : m \in ModelNames}

IdleClient ==
    [pc |-> "idle", payload |-> [model |-> <<>>], provider |-> NoProvider,
     url |-> <<>>, body |-> [model |-> <<>>], statuses |-> <<>>]

InitClient ==
    /\ registry \in ClientRegistries
    /\ lookup = NoLookup
    /\ client = IdleClient
    /\ AuxIdle
    /\ BreakerIdle
    /\ WindowIdle
    /\ PipeIdle

\* forward(payload) is called.
ForwardCall ==
    /\ client.pc = "idle"
    /\ \E payload \in ClientPayloads :
            client' = [IdleClient EXCEPT !.pc = "attempting", !.payload = payload]
    /\ UNCHANGED <<registry, lookup, auxVars, breakerVars, windowVars, pipeVars>>

\* One run of the body of forward up to the response: route, build, post.
Sent(status) ==
    LET provider == _get_provider(registry, client.payload.model)
        built == _build_request(client.payload, provider)
    IN  [client EXCEPT !.provider = provider,
                       !.url = built.url,
                       !.body = built.body,
                       !.statuses = Append(@, status)]

\* The attempt is answered 2xx: forward returns the response.
AttemptReturn ==
    /\ client.pc = "attempting"
    /\ client' = [Sent("2xx") EXCEPT !.pc = "returned"]
    /\ UNCHANGED <<registry, lookup, auxVars, breakerVars, windowVars, pipeVars>>

\* The attempt raises: retry(stop_after_attempt(3)) runs forward again
\* unless this was the third attempt, whatever was raised.
AttemptRaise ==
    /\ client.pc = "attempting"
    /\ \E status \in Statuses \ {"2xx"} :
            client' = [Sent(status) EXCEPT
                        !.pc = IF Len(client.statuses) + 1 >= ForwardAttempts
                               THEN "raised" ELSE "attempting"]
    /\ UNCHANGED <<registry, lookup, auxVars, breakerVars, windowVars, pipeVars>>

\* The caller has its response or its error.
ForwardDone ==
    /\ client.pc \in {"returned", "raised"}
    /\ client' = IdleClient
    /\ UNCHANGED <<registry, lookup, auxVars, breakerVars, windowVars, pipeVars>>

NextClient ==
    \/ ForwardCall
    \/ AttemptReturn
    \/ AttemptRaise
    \/ ForwardDone

SpecClient == InitClient /\ [][NextClient]_vars

(***************************************************************************)
(* SpecGuarded: breaker-guarded calls over one breaker, made by concurrent *)
(* tasks: CircuitBreakerStrategy.execute (core/degradation.py) and the     *)
(* memory retrieval of process() (core/pipeline.py, lines 127-153).        *)
(***************************************************************************)
Callers == 1..MaxCallers

Sites == {"execute", "process"}

\* A task that is in no guarded call
IdleCaller ==
    [pc |-> "idle", site |-> "none", fallback |-> FALSE, path |-> "none",
     fallback_outcome |-> "none", admitted |-> NewBreaker]

InitGuarded ==
    /\ cfg \in SmallConfigs
    /\ cb = NewBreaker
    /\ now = 0
    /\ ticks = 0
    /\ lastOp = NoOp
    /\ failStreak = 0
    /\ hoSucc = 0
    /\ hoAdmits = 0
    /\ strat = [calls |-> 0, caller |-> [c \in Callers |-> IdleCaller]]
    /\ mem = NoRetriever
    /\ sanitized = NoFlagsMap
    /\ providerList = NoListing
    /\ traffic = NoTraffic
    /\ registry = NoRegistry
    /\ lookup = NoLookup
    /\ client = NoClient
    /\ WindowIdle
    /\ PipeIdle

GuardedUnchanged ==
    UNCHANGED <<cfg, lastOp, failStreak, hoSucc, hoAdmits, mem, sanitized, providerList, traffic,
                registry, lookup, client, windowVars, pipeVars>>

\* The guarded call of task c moves to pc with the fields of upd changed.
Moved(c, upd) == [strat EXCEPT !.caller[c] = upd @@ @]

\* execute() from its entry to its first await or its return when denied;
\* process() from line 127 to the await of retrieve_for_context or past the
\* retrieval when denied. process() has no fallback.
GuardedCall(c) ==
    /\ strat.caller[c].pc = "idle"
    /\ strat.calls < MaxExecutes
    /\ \E site \in Sites, fallback \in BOOLEAN, fallback_on_open \in BOOLEAN :
        LET r == can_execute(cfg, cb, now)
        IN  /\ site = "process" => ~fallback /\ ~fallback_on_open
            /\ cb' = r.cb
            /\ strat' =
                [Moved(c, [pc |-> IF r.ok THEN "primary"
                                  ELSE IF fallback /\ fallback_on_open THEN "fallback"
                                  ELSE "done",
                           site |-> site,
                           fallback |-> fallback,
                           path |-> IF r.ok THEN "admitted" ELSE "denied",
                           admitted |-> r.cb])
                    EXCEPT !.calls = @ + 1]
    /\ UNCHANGED <<now, ticks>>
    /\ GuardedUnchanged

\* The primary operation returned: record_success.
PrimaryReturn(c) ==
    /\ strat.caller[c].pc = "primary"
    /\ cb' = record_success(cfg, cb)
    /\ strat' = Moved(c, [pc |-> "done", path |-> "returned"])
    /\ UNCHANGED <<now, ticks>>
    /\ GuardedUnchanged

\* The primary operation raised an Exception: record_failure, then the
\* fallback when execute() was given one; otherwise execute() raises again
\* and process() goes on without memory.
PrimaryRaise(c) ==
    /\ strat.caller[c].pc = "primary"
    /\ cb' = record_failure(cfg, cb, now)
    /\ strat' = Moved(c, [pc |-> IF strat.caller[c].fallback THEN "fallback" ELSE "done",
                          path |-> "raised"])
    /\ UNCHANGED <<now, ticks>>
    /\ GuardedUnchanged

\* The cancellation is recorded as a failure
PrimaryCancel_recorded(c) ==
    /\ strat.caller[c].pc = "primary"
    /\ cb' = record_failure(cfg, cb, now)
    /\ strat' = Moved(c, [pc |-> "done", path |-> "cancelled"])
    /\ UNCHANGED <<now, ticks>>
    /\ GuardedUnchanged

\* The task is cancelled at the await of the primary operation:
\* CancelledError is a BaseException, which 'except Exception' lets through.
PrimaryCancel(c) ==
    /\ strat.caller[c].pc = "primary"
    /\ strat' = Moved(c, [pc |-> "done", path |-> "cancelled"])
    /\ UNCHANGED <<cb, now, ticks>>
    /\ GuardedUnchanged

\* A fallback that raises is recorded as a failure
FallbackEnd_recorded(c) ==
    /\ strat.caller[c].pc = "fallback"
    /\ \E outcome \in {"returned", "raised", "cancelled"} :
            /\ cb' = IF outcome = "raised" THEN record_failure(cfg, cb, now) ELSE cb
            /\ strat' = Moved(c, [pc |-> "done", fallback_outcome |-> outcome])
    /\ UNCHANGED <<now, ticks>>
    /\ GuardedUnchanged

\* The fallback of execute() returns, raises or is cancelled: its outcome is
\* the outcome of execute().
FallbackEnd(c) ==
    /\ strat.caller[c].pc = "fallback"
    /\ \E outcome \in {"returned", "raised", "cancelled"} :
            strat' = Moved(c, [pc |-> "done", fallback_outcome |-> outcome])
    /\ UNCHANGED <<cb, now, ticks>>
    /\ GuardedUnchanged

\* The guarded call is over.
GuardedDone(c) ==
    /\ strat.caller[c].pc = "done"
    /\ strat' = [strat EXCEPT !.caller[c] = IdleCaller]
    /\ UNCHANGED <<cb, now, ticks>>
    /\ GuardedUnchanged

\* Time passes: the recovery timeout of the breaker.
GuardedTick ==
    /\ ticks < MaxPipeTicks
    /\ now' = now + cfg.recovery_timeout
    /\ ticks' = ticks + 1
    /\ UNCHANGED <<cb, strat>>
    /\ GuardedUnchanged

NextGuarded ==
    \/ \E c \in Callers : GuardedCall(c)
    \/ \E c \in Callers : PrimaryReturn(c)
    \/ \E c \in Callers : PrimaryRaise(c)
    \/ \E c \in Callers : PrimaryCancel(c)
    \/ \E c \in Callers : FallbackEnd(c)
    \/ \E c \in Callers : GuardedDone(c)
    \/ GuardedTick

SpecGuarded == InitGuarded /\ [][NextGuarded]_vars

(***************************************************************************)
(* SpecRecovery: breaker-guarded calls that never stop coming, under a     *)
(* clock that never stops. Every task keeps calling can_execute; an        *)
(* admitted call ends by returning, raising or being cancelled. The        *)
(* breaker reads the clock only as now - last_failure_time compared with   *)
(* recovery_timeout, so the clock is kept up to the point where that       *)
(* comparison is decided; ticks and strat.polls keep the parity of the     *)
(* clock steps and of the can_execute calls.                               *)
(***************************************************************************)
IdleProbe == [pc |-> "idle"]

InitRecovery ==
    /\ cfg \in SmallConfigs
    /\ cb = NewBreaker
    /\ now = 0
    /\ ticks = 0
    /\ lastOp = NoOp
    /\ failStreak = 0
    /\ hoSucc = 0
    /\ hoAdmits = 0
    /\ strat = [polls |-> 0, caller |-> [c \in Callers |-> IdleProbe]]
    /\ mem = NoRetriever
    /\ sanitized = NoFlagsMap
    /\ providerList = NoListing
    /\ traffic = NoTraffic
    /\ registry = NoRegistry
    /\ lookup = NoLookup
    /\ client = NoClient
    /\ WindowIdle
    /\ PipeIdle

RecoveryUnchanged ==
    UNCHANGED <<cfg, failStreak, hoSucc, hoAdmits, mem, sanitized, providerList, traffic,
                registry, lookup, client, windowVars, pipeVars>>

\* Task c asks can_execute: admitted, it awaits the guarded operation;
\* denied, it is free to ask again.
ProbeCall(c) ==
    /\ strat.caller[c].pc = "idle"
    /\ LET r == can_execute(cfg, cb, now)
       IN  /\ cb' = r.cb
           /\ lastOp' = Called("can_execute", r.ok)
           /\ strat' = [strat EXCEPT !.polls = 1 - @,
                                     !.caller[c].pc = IF r.ok THEN "primary" ELSE "idle"]
    /\ UNCHANGED <<now, ticks>>
    /\ RecoveryUnchanged

\* The guarded operation returned: record_success.
ProbeReturn(c) ==
    /\ strat.caller[c].pc = "primary"
    /\ cb.total_successes < cfg.success_threshold + ExtraSuccesses
    /\ cb' = record_success(cfg, cb)
    /\ lastOp' = Called("record_success", TRUE)
    /\ strat' = [strat EXCEPT !.caller[c].pc = "idle"]
    /\ UNCHANGED <<now, ticks>>
    /\ RecoveryUnchanged

\* The guarded operation raised an Exception: record_failure.
ProbeRaise(c) ==
    /\ strat.caller[c].pc = "primary"
    /\ cb.total_failures < cfg.failure_threshold + ExtraFailures
    /\ cb' = record_failure(cfg, cb, now)
    /\ lastOp' = Called("record_failure", TRUE)
    /\ strat' = [strat EXCEPT !.caller[c].pc = "idle"]
    /\ UNCHANGED <<now, ticks>>
    /\ RecoveryUnchanged

\* The task is cancelled at the await: neither record_success nor
\* record_failure runs.
ProbeCancel(c) ==
    /\ strat.caller[c].pc = "primary"
    /\ lastOp' = Called("cancelled", TRUE)
    /\ strat' = [strat EXCEPT !.caller[c].pc = "idle"]
    /\ UNCHANGED <<cb, now, ticks>>
    /\ RecoveryUnchanged

\* A second passes.
RecoveryTick ==
    /\ now' = Min(now + 1, cb.last_failure_time + cfg.recovery_timeout)
    /\ ticks' = 1 - ticks
    /\ lastOp' = NoOp
    /\ UNCHANGED <<cb, strat>>
    /\ RecoveryUnchanged

NextRecovery ==
    \/ \E c \in Callers : ProbeCall(c)
    \/ \E c \in Callers : ProbeReturn(c)
    \/ \E c \in Callers : ProbeRaise(c)
    \/ \E c \in Callers : ProbeCancel(c)
    \/ RecoveryTick

\* The clock advances, some task keeps asking, and every admitted call ends.
RecoveryFairness ==
    /\ WF_vars(RecoveryTick)
    /\ WF_vars(\E c \in Callers : ProbeCall(c))
    /\ \A c \in Callers : WF_vars(ProbeReturn(c) \/ ProbeRaise(c) \/ ProbeCancel(c))

SpecRecovery == InitRecovery /\ [][NextRecovery]_vars /\ RecoveryFairness

(***************************************************************************)
(* SpecRetrieve: one MemoryRetriever answering retrieve calls over what    *)
(* its store finds.                                                        *)
(***************************************************************************)
Scores == {0, 10, DefaultSimilarityThreshold, 90}

\* What the stores answer: _search_cosine and InMemoryStore.search report
\* a similarity, _search_vss reports a distance.
StoreResults ==
    {[text |-> "m", similarity |-> v] : v \in Scores}
        \cup {[text |-> "m", distance |-> v] : v \in Scores}

RECURSIVE SeqsUpTo(_, _)
SeqsUpTo(S, n) ==
    IF n = 0 THEN {<<>>}
    ELSE LET shorter == SeqsUpTo(S, n - 1)
         IN  shorter \cup {Append(q, x) : q \in {t \in shorter : Len(t) = n - 1}, x \in S}

Thresholds == {DefaultSimilarityThreshold, 30, 90}

MemoryRetriever(similarity_threshold) ==
    [pc |-> "idle", similarity_threshold |-> similarity_threshold,
     results |-> <<>>, filtered |-> <<>>]

InitRetrieve ==
    /\ mem \in {MemoryRetriever(t) : t \in Thresholds}
    /\ strat = NoStrategy
    /\ sanitized = NoFlagsMap
    /\ providerList = NoListing
    /\ traffic = NoTraffic
    /\ registry = NoRegistry
    /\ lookup = NoLookup
    /\ client = NoClient
    /\ BreakerIdle
    /\ WindowIdle
    /\ PipeIdle

\* retrieve(): the store answers results, the filter is applied.
Retrieve ==
    /\ \E results \in SeqsUpTo(StoreResults, MaxResults) :
            mem' = [mem EXCEPT !.pc = "returned",
                               !.results = results,
                               !.filtered = retrieve(results, mem.similarity_threshold)]
    /\ UNCHANGED <<strat, sanitized, providerList, traffic, registry, lookup, client,
                   breakerVars, windowVars, pipeVars>>

NextRetrieve == Retrieve

SpecRetrieve == InitRetrieve /\ [][NextRetrieve]_vars

(***************************************************************************)
(* SpecStore: one SQLiteVSSStore (memory/store.py) with the native vector  *)
(* index loaded, under add, delete, clear and search. The memories table   *)
(* has a TEXT primary key, so its rowid is the implicit one: SQLite gives  *)
(* a new row the largest rowid in the table plus one. Embeddings have one  *)
(* dimension.                                                              *)
(***************************************************************************)
MaxAdds == 3

DefaultTopK == 3

Embeddings == {1, 5}

Queries == {1, 4}

\* The rowid SQLite gives the next row of the memories table
NextRowid(rows) ==
    IF rows = <<>> THEN 1
    ELSE 1 + CHOOSE r \in {rows[k].rowid : k \in 1..Len(rows)} :
                \A k \in 1..Len(rows) : rows[k].rowid <= r

\* v.distance of an index entry for a query
Distance(query, embedding) == (query - embedding) * (query - embedding)

\* SQLiteVSSStore.__init__ with _vss_available = True
SQLiteVSSStore ==
    [pc |-> "store", rows |-> <<>>, index |-> <<>>, uuids |-> 0,
     query |-> 0, found |-> <<>>, searched |-> FALSE]

\* ORDER BY v.distance: ascending, ties in the order of seq
RECURSIVE OrderByDistance(_)
OrderByDistance(seq) ==
    IF seq = <<>> THEN <<>>
    ELSE LET k == CHOOSE i \in 1..Len(seq) :
                    /\ \A j \in 1..Len(seq) : seq[i].distance <= seq[j].distance
                    /\ \A j \in 1..(i - 1) : seq[j].distance > seq[i].distance
             rest == [j \in 1..(Len(seq) - 1) |-> IF j < k THEN seq[j] ELSE seq[j + 1]]
         IN  <<seq[k]>> \o OrderByDistance(rest)

\* SQLiteVSSStore._search_vss: the index entries joined with the memories
\* on the rowid, by ascending distance, at most top_k of them.
_search_vss(store, query_embedding, top_k) ==
    LET joined == [k \in 1..Len(store.index) |->
                     [entry |-> store.index[k],
                      rows |-> SelectSeq(store.rows,
                                  LAMBDA m : m.rowid = store.index[k].rowid)]]
        hits == SelectSeq(joined, LAMBDA j : j.rows /= <<>>)
        results == [k \in 1..Len(hits) |->
                      [id |-> hits[k].rows[1].id,
                       distance |-> Distance(query_embedding, hits[k].entry.embedding)]]
        ordered == OrderByDistance(results)
    IN  SubSeq(ordered, 1, Min(top_k, Len(ordered)))

\* SQLiteVSSStore.delete
delete(store, memory_id) ==
    [store EXCEPT !.rows = SelectSeq(@, LAMBDA m : m.id /= memory_id)]

\* SQLiteVSSStore.clear
clear(store) == [store EXCEPT !.rows = <<>>, !.index = <<>>]

InitStore ==
    /\ mem = SQLiteVSSStore
    /\ strat = NoStrategy
    /\ sanitized = NoFlagsMap
    /\ providerList = NoListing
    /\ traffic = NoTraffic
    /\ registry = NoRegistry
    /\ lookup = NoLookup
    /\ client = NoClient
    /\ BreakerIdle
    /\ WindowIdle
    /\ PipeIdle

StoreUnchanged ==
    UNCHANGED <<strat, sanitized, providerList, traffic, registry, lookup, client,
                breakerVars, windowVars, pipeVars>>

\* add(): the row gets a new uuid and the next rowid; the index gets the
\* entry (rowid, embedding). When the index already holds an entry of that
\* rowid the extension either refuses the insert, which add() only logs, or
\* takes it as a second entry.
StoreAdd ==
    /\ mem.uuids < MaxAdds
    /\ \E embedding \in Embeddings, refused \in BOOLEAN :
        LET rowid == NextRowid(mem.rows)
            taken == \E k \in 1..Len(mem.index) : mem.index[k].rowid = rowid
        IN  /\ refused => taken
            /\ mem' = [mem EXCEPT
                        !.uuids = @ + 1,
                        !.rows = Append(@, [rowid |-> rowid, id |-> mem.uuids + 1,
                                            embedding |-> embedding]),
                        !.index = IF refused THEN @
                                  ELSE Append(@, [rowid |-> rowid, embedding |-> embedding]),
                        !.found = <<>>,
                        !.searched = FALSE]
    /\ StoreUnchanged

StoreDelete ==
    /\ \E memory_id \in 1..MaxAdds :
            mem' = [delete(mem, memory_id) EXCEPT !.found = <<>>, !.searched = FALSE]
    /\ StoreUnchanged

StoreClear ==
    /\ mem' = [clear(mem) EXCEPT !.found = <<>>, !.searched = FALSE]
    /\ StoreUnchanged

StoreSearch ==
    /\ \E query \in Queries :
            mem' = [mem EXCEPT !.query = query,
                               !.found = _search_vss(mem, query, DefaultTopK),
                               !.searched = TRUE]
    /\ StoreUnchanged

NextStore ==
    \/ StoreAdd
    \/ StoreDelete
    \/ StoreClear
    \/ StoreSearch

SpecStore == InitStore /\ [][NextStore]_vars

(***************************************************************************)
(* SpecTraffic: one TrafficAnalyzer receiving analyze_request calls. The   *)
(* calls repeat a cycle of two requests chosen at the start; the request   *)
(* id is the ordinal of the call.                                          *)
(***************************************************************************)
PayloadOf(kinds) ==
    LET msgs == MessagesOf(kinds)
    IN  [i \in 1..Len(msgs) |-> PayloadMessage(msgs[i])]

\* A system message with a memory context appended to its content
Injected(m) == [m EXCEPT !.content = @ \o <<"\n\n">> \o <<"mem", "mem", "mem">>]

\* The (original, optimized) message lists of a call: a truncated
\* conversation, an untouched one, and one that memory injection made longer.
AnalyzedPairs ==
    {[original |-> PayloadOf(<<"S", "U", "A", "U">>), optimized |-> PayloadOf(<<"S", "U">>)],
     [original |-> PayloadOf(<<"S", "R">>), optimized |-> PayloadOf(<<"S", "R">>)],
     [original |-> PayloadOf(<<"S", "R">>),
      optimized |-> <<Injected(PayloadOf(<<"S", "R">>)[1]), PayloadOf(<<"S", "R">>)[2]>>]}

AnalyzedCalls ==
    {[pair |-> pr, intent |-> i, optimization_enabled |-> e] :
        pr \in AnalyzedPairs, i \in {RETRIEVAL}, e \in BOOLEAN}

\* No get_recent_metrics call since the last analyze_request
NoRecent == [asked |-> FALSE, n |-> 0, returned |-> <<>>]

\* TrafficAnalyzer.get_recent_metrics: the slice _metrics_history[-n:]
\* for n >= 0, where -0 is 0 and the slice starts at the first entry.
get_recent_metrics(history, n) ==
    IF n = 0 \/ n >= Len(history) THEN history
    ELSE SubSeq(history, Len(history) - n + 1, Len(history))

\* The n of GET /traffic/recent: the default and small ones
DefaultRecent == 10

RecentCounts == {0, 1, 2, DefaultRecent}

InitTraffic ==
    /\ traffic \in {[pc |-> "on", cycle |-> <<c1, c2>>, arrivals |-> 0, history |-> <<>>,
                      recent |-> NoRecent] :
                        c1 \in AnalyzedCalls, c2 \in AnalyzedCalls}
    /\ strat = NoStrategy
    /\ mem = NoRetriever
    /\ sanitized = NoFlagsMap
    /\ providerList = NoListing
    /\ registry = NoRegistry
    /\ lookup = NoLookup
    /\ client = NoClient
    /\ BreakerIdle
    /\ WindowIdle
    /\ PipeIdle

\* The call made as the n-th
CallOf(n) == traffic.cycle[((n - 1) % Len(traffic.cycle)) + 1]

\* analyze_request
AnalyzeRequest ==
    /\ traffic.arrivals < MaxArrivals
    /\ LET n == traffic.arrivals + 1
           call == CallOf(n)
           metrics == RequestMetrics(n, "gpt-4", call.pair.original, call.pair.optimized,
                                     call.intent, call.optimization_enabled)
       IN  traffic' = [traffic EXCEPT !.arrivals = n,
                                      !.history = Store(@, metrics),
                                      !.recent = NoRecent]
    /\ UNCHANGED <<strat, mem, sanitized, providerList, registry, lookup, client,
                   breakerVars, windowVars, pipeVars>>

\* GET /traffic/recent?n=...: get_recent_metrics(n)
GetRecentMetrics ==
    /\ traffic.arrivals <= MaxQueried
    /\ \E n \in RecentCounts :
            traffic' = [traffic EXCEPT
                          !.recent = [asked |-> TRUE, n |-> n,
                                      returned |-> get_recent_metrics(traffic.history, n)]]
    /\ UNCHANGED <<strat, mem, sanitized, providerList, registry, lookup, client,
                   breakerVars, windowVars, pipeVars>>

NextTraffic ==
    \/ AnalyzeRequest
    \/ GetRecentMetrics

SpecTraffic == InitTraffic /\ [][NextTraffic]_vars

(***************************************************************************)
(* SpecPipe: one pipeline, built in one of the three ways, serving         *)
(* process() and stream() calls one after another; the memory retriever    *)
(* and the upstream answer or fail as they please.                         *)
(***************************************************************************)
PipeKinds == {"S", "R", "T", "L", "N"}

PipeRequests ==
    {ChatRequest(MessagesOf(ks), tl) : ks \in KindSeqs(PipeKinds, MaxPipeLen), tl \in ToolLists}

PipeSettings ==
    {Settings(n, o, t) : n \in 0..MaxPreserveN, o \in BOOLEAN, t \in {MaxSmall}}

\* What retrieve_for_context returns: "" or a formatted context.
MemoryContexts == {<<>>, <<"mem">>}

\* ProcessingPipeline.__init__
ProcessingPipeline(ctor, settings) ==
    [ctor |-> ctor,
     settings |-> settings,
     pc |-> "idle",
     mode |-> "none",
     calls |-> 0,
     memory_context |-> <<>>,
     payload |-> NoPayload,
     outcome |-> "none",
     accounted |-> 0]

InitPipe ==
    /\ pipe \in {ProcessingPipeline(c, st) : c \in Constructions, st \in PipeSettings}
    /\ fwd = [attempts |-> 0, failed_calls |-> 0, last_failure |-> 0]
    /\ asmCfg = create_assembler(pipe.settings)
    /\ cfg = MemoryBreakerConfig
    /\ cb = NewBreaker
    /\ now = 0
    /\ ticks = 0
    /\ lastOp = NoOp
    /\ failStreak = 0
    /\ hoSucc = 0
    /\ hoAdmits = 0
    /\ request = NoRequest
    /\ flags = <<>>
    /\ intent = "none"
    /\ optimized = NoRequest
    /\ wpc = "off"
    /\ RouteIdle

\* process() from step 4 to the await of client.forward; stream() has the
\* same shape without the injection.
ToForward(mode, req, i, preserve_flags, memory_context) ==
    LET opt == IF mode = "process"
               THEN Optimize(pipe.settings, asmCfg, req, i, preserve_flags, memory_context)
               ELSE OptimizeStream(pipe.settings, asmCfg, req, i, preserve_flags)
    IN  /\ optimized' = opt
        /\ pipe' = [pipe EXCEPT !.pc = "forwarding",
                                !.mode = mode,
                                !.memory_context = memory_context,
                                !.payload = _to_payload(opt)]

\* process(): some user message has non-empty content to query with.
HasQuery(req) ==
    \E k \in 1..Len(req.messages) :
        req.messages[k].role = "user" /\ TruthyList(req.messages[k].content)

\* process() from its entry to its first await, or to the exception that
\* ends it.
ProcessStart ==
    /\ pipe.pc = "idle"
    /\ pipe.calls < MaxCalls
    /\ \E req \in PipeRequests :
        LET preserve_flags == PreserveFlags(sanitize(req))
            i == classify(req)
        IN  /\ request' = req
            /\ flags' = preserve_flags
            /\ intent' = i
            /\ IF i = RETRIEVAL /\ HasRetriever(pipe.ctor)
               THEN IF ~HasCircuitAttribute(pipe.ctor)
                    THEN \* reading self._memory_circuit raises AttributeError
                         /\ pipe' = [pipe EXCEPT !.pc = "done", !.mode = "process",
                                                 !.outcome = "AttributeError"]
                         /\ UNCHANGED <<optimized, cb>>
                    ELSE LET r == IF HasCircuit(pipe.ctor)
                                  THEN can_execute(cfg, cb, now)
                                  ELSE [ok |-> TRUE, cb |-> cb]
                         IN  /\ cb' = r.cb
                             /\ IF r.ok /\ HasQuery(req)
                                THEN /\ pipe' = [pipe EXCEPT !.pc = "retrieving",
                                                             !.mode = "process"]
                                     /\ UNCHANGED optimized
                                ELSE ToForward("process", req, i, preserve_flags, <<>>)
               ELSE /\ ToForward("process", req, i, preserve_flags, <<>>)
                    /\ UNCHANGED cb
    /\ UNCHANGED <<routeVars, fwd, asmCfg, cfg, now, ticks, lastOp, failStreak, hoSucc, hoAdmits, wpc>>

\* retrieve_for_context returned: record_success on the breaker, then on to
\* the forward.
RetrieveReturn ==
    /\ pipe.pc = "retrieving"
    /\ \E ctx \in MemoryContexts : ToForward("process", request, intent, flags, ctx)
    /\ cb' = IF HasCircuit(pipe.ctor) THEN record_success(cfg, cb) ELSE cb
    /\ UNCHANGED <<routeVars, request, flags, intent, fwd, asmCfg, cfg, now, ticks, lastOp,
                   failStreak, hoSucc, hoAdmits, wpc>>

\* retrieve_for_context raised and nothing is recorded
RetrieveRaise_unrecorded ==
    /\ pipe.pc = "retrieving"
    /\ ToForward("process", request, intent, flags, <<>>)
    /\ cb' = cb
    /\ UNCHANGED <<routeVars, request, flags, intent, fwd, asmCfg, cfg, now, ticks, lastOp,
                   failStreak, hoSucc, hoAdmits, wpc>>

\* retrieve_for_context raised: except Exception records the failure and the
\* request goes on without memory.
RetrieveRaise ==
    /\ pipe.pc = "retrieving"
    /\ ToForward("process", request, intent, flags, <<>>)
    /\ cb' = IF HasCircuit(pipe.ctor) THEN record_failure(cfg, cb, now) ELSE cb
    /\ UNCHANGED <<routeVars, request, flags, intent, fwd, asmCfg, cfg, now, ticks, lastOp,
                   failStreak, hoSucc, hoAdmits, wpc>>

\* stream() from its entry to the await of client.stream.
StreamStart ==
    /\ pipe.pc = "idle"
    /\ pipe.calls < MaxCalls
    /\ \E req \in PipeRequests :
        LET preserve_flags == PreserveFlags(sanitize(req))
            i == classify(req)
        IN  /\ request' = req
            /\ flags' = preserve_flags
            /\ intent' = i
            /\ ToForward("stream", req, i, preserve_flags, <<>>)
    /\ UNCHANGED <<routeVars, fwd, cb, asmCfg, cfg, now, ticks, lastOp, failStreak, hoSucc, hoAdmits, wpc>>

\* Attempts one call of the client makes before it gives up: forward is
\* wrapped in retry(stop_after_attempt(3)), stream is not retried.
AttemptLimit(mode) == IF mode = "process" THEN ForwardAttempts ELSE 1

\* One upstream attempt that is answered without error: the call returns;
\* process() goes through analyze_request first, whose history is kept here
\* by its length, pipe.accounted.
ForwardReturn ==
    /\ pipe.pc = "forwarding"
    /\ fwd' = [fwd EXCEPT !.attempts = @ + 1, !.failed_calls = 0]
    /\ pipe' = [pipe EXCEPT !.pc = "done", !.outcome = "returned",
                            !.accounted = IF pipe.mode = "process"
                                          THEN Min(@ + 1, MaxHistory)
                                          ELSE @]
    /\ UNCHANGED <<routeVars, breakerVars, windowVars>>

\* One upstream attempt that raises (raise_for_status or a transport error):
\* retried until the limit, then the error leaves process() or stream().
ForwardRaise ==
    /\ pipe.pc = "forwarding"
    /\ IF fwd.attempts + 1 < AttemptLimit(pipe.mode)
       THEN /\ fwd' = [fwd EXCEPT !.attempts = @ + 1]
            /\ UNCHANGED pipe
       ELSE /\ fwd' = [fwd EXCEPT !.attempts = @ + 1,
                                  !.failed_calls = Min(@ + 1, pipe.settings.circuit_breaker_threshold),
                                  !.last_failure = now]
            /\ pipe' = [pipe EXCEPT !.pc = "done", !.outcome = "forward_error"]
    /\ UNCHANGED <<routeVars, breakerVars, windowVars>>

\* The call is over; its locals are gone.
Return ==
    /\ pipe.pc = "done"
    /\ pipe' = [pipe EXCEPT !.pc = "idle", !.mode = "none", !.calls = @ + 1,
                            !.memory_context = <<>>, !.payload = NoPayload,
                            !.outcome = "none"]
    /\ fwd' = [fwd EXCEPT !.attempts = 0]
    /\ request' = NoRequest
    /\ flags' = <<>>
    /\ intent' = "none"
    /\ optimized' = NoRequest
    /\ UNCHANGED <<routeVars, breakerVars, asmCfg, wpc>>

\* Time passes between calls.
PipeTick ==
    /\ pipe.pc = "idle"
    /\ ticks < MaxPipeTicks
    /\ now' = now + cfg.recovery_timeout
    /\ ticks' = ticks + 1
    /\ UNCHANGED <<routeVars, cfg, cb, lastOp, failStreak, hoSucc, hoAdmits, windowVars, pipeVars>>

NextPipe ==
    \/ ProcessStart
    \/ RetrieveReturn
    \/ RetrieveRaise
    \/ StreamStart
    \/ ForwardReturn
    \/ ForwardRaise
    \/ Return
    \/ PipeTick

SpecPipe == InitPipe /\ [][NextPipe]_vars

(***************************************************************************)
(* Claims on the circuit breaker, checked under SpecBreaker.               *)
(***************************************************************************)

\* C1: after failure_threshold consecutive record_failure calls (no
\* record_success or reset between them) the breaker is open; and a
\* can_execute made while the breaker is open with
\* now - last_failure_time < recovery_timeout returns false and leaves it open.
C1_OpensAndRejects ==
    /\ [](lastOp.op = "record_failure" /\ failStreak >= cfg.failure_threshold
            => cb.state = OPEN)
    /\ [][(/\ lastOp'.op = "can_execute"
           /\ cb.state = OPEN
           /\ now - cb.last_failure_time < cfg.recovery_timeout)
          => (~lastOp'.ok /\ cb'.state = OPEN)]_vars

\* C1 witness: threshold failures in a row opened the default breaker and a
\* can_execute 59 s after the last failure was refused.
C1_Witness ==
    /\ cfg = CircuitBreakerConfig
    /\ cb.state = OPEN
    /\ failStreak = cfg.failure_threshold
    /\ cb.total_failures = cfg.failure_threshold
    /\ lastOp = Called("can_execute", FALSE)
    /\ now - cb.last_failure_time = cfg.recovery_timeout - 1

\* C2: from half_open one record_failure reopens the breaker; the
\* success_threshold-th record_success of a half-open episode closes it; and
\* with the defaults 5 failures in a row open it, a can_execute made 60 s or
\* more after the last failure returns true and moves it to half_open, and
\* the 2nd success there closes it.
C2_HalfOpenCycle ==
    /\ [][lastOp'.op = "record_failure" /\ cb.state = HALF_OPEN
          => cb'.state = OPEN]_vars
    /\ [][(/\ lastOp'.op = "record_success"
           /\ cb.state = HALF_OPEN
           /\ hoSucc + 1 >= cfg.success_threshold)
          => cb'.state = CLOSED]_vars
    /\ [](/\ cfg = CircuitBreakerConfig
          /\ lastOp.op = "record_failure"
          /\ failStreak >= 5
          => cb.state = OPEN)
    /\ [][(/\ cfg = CircuitBreakerConfig
           /\ lastOp'.op = "can_execute"
           /\ cb.state = OPEN
           /\ now - cb.last_failure_time >= 60)
          => (lastOp'.ok /\ cb'.state = HALF_OPEN)]_vars
    /\ [][(/\ cfg = CircuitBreakerConfig
           /\ lastOp'.op = "record_success"
           /\ cb.state = HALF_OPEN
           /\ hoSucc + 1 >= 2)
          => cb'.state = CLOSED]_vars

\* C2 witness: the default breaker went closed -> open -> half_open -> closed
\* through exactly 5 failures, a can_execute at t + 60 and 2 successes.
C2_Witness ==
    /\ cfg = CircuitBreakerConfig
    /\ cb.state = CLOSED
    /\ cb.state_changes = 3
    /\ cb.total_failures = 5
    /\ cb.total_successes = 2
    /\ lastOp.op = "record_success"
    /\ now = cb.last_failure_time + 60

\* C29: every state transition of the breaker increments state_changes by
\* exactly one, whichever operation caused it (can_execute, record_success,
\* record_failure, reset_all or the reset of the management API), and
\* state_changes moves with no other step.
C29_TransitionsCounted ==
    [][IF cb'.state /= cb.state
       THEN cb'.state_changes = cb.state_changes + 1
       ELSE cb'.state_changes = cb.state_changes]_vars

\* C30: within one half-open episode can_execute returns true at most
\* half_open_max_calls times, counting the call that moved the breaker
\* from open to half-open.
C30_HalfOpenAdmissions ==
    cb.state = HALF_OPEN => hoAdmits <= cfg.half_open_max_calls

\* C33: while the breaker is open, record_failure does not postpone
\* recovery: last_failure_time stays at the time the breaker opened, so a
\* can_execute that is due to return true stays due whatever failures are
\* recorded in between.
C33_OpenFailuresDoNotPostpone ==
    [][(cb.state = OPEN /\ cb'.state = OPEN)
        => /\ cb'.last_failure_time = cb.last_failure_time
           /\ can_execute(cfg, cb, now).ok => can_execute(cfg, cb', now').ok]_vars

\* C34: in every reachable breaker state (thresholds >= 1) a closed breaker
\* has failure_count < failure_threshold, a half-open one has
\* success_count < success_threshold and at most half_open_max_calls counted
\* calls; total_failures, total_successes and state_changes never decrease;
\* and right after entering closed failure_count = success_count = 0,
\* right after entering open success_count = 0, right after entering
\* half_open failure_count = success_count = half_open_calls = 0.
C34_StateBounds ==
    /\ cb.state = CLOSED => cb.failure_count < cfg.failure_threshold
    /\ cb.state = HALF_OPEN => /\ cb.success_count < cfg.success_threshold
                               /\ cb.half_open_calls <= cfg.half_open_max_calls

C34_Invariants ==
    [][/\ C34_StateBounds
       /\ C34_StateBounds'
       /\ cb'.total_failures >= cb.total_failures
       /\ cb'.total_successes >= cb.total_successes
       /\ cb'.state_changes >= cb.state_changes
       /\ cb'.state /= cb.state =>
            CASE cb'.state = CLOSED ->
                    cb'.failure_count = 0 /\ cb'.success_count = 0
              [] cb'.state = OPEN ->
                    cb'.success_count = 0
              [] cb'.state = HALF_OPEN ->
                    /\ cb'.failure_count = 0
                    /\ cb'.success_count = 0
                    /\ cb'.half_open_calls = 0]_vars

\* A breaker that opened, went half-open, was reopened by a failed probe
\* and has just gone half-open again.
C34_Witness ==
    /\ cb.state = HALF_OPEN
    /\ cb.state_changes = 4
    /\ cb.total_failures = 2
    /\ lastOp = Called("can_execute", TRUE)
    /\ cb.half_open_calls = 0

\* C35: after reset_all the breaker is closed with failure_count = 0,
\* success_count = 0 and half_open_calls = 0, whatever its state and
\* counters were before.
C35_ResetAllClears ==
    lastOp.op = "reset_all" =>
        /\ cb.state = CLOSED
        /\ cb.failure_count = 0
        /\ cb.success_count = 0
        /\ cb.half_open_calls = 0

(***************************************************************************)
(* Claims on the assembler, checked under SpecWindow.                      *)
(***************************************************************************)
Last(seq) == seq[Len(seq)]

\* Whether message j (0-based) of the request occurs in the assembled output.
InOutput(j) == \E k \in 1..Len(optimized.messages) :
                    optimized.messages[k] = request.messages[j + 1]

\* C5: for every request with non-empty messages, every intent, preserve_last_n
\* >= 0 and max_messages >= 1, the last message of the output of assemble is
\* the last message of the request.
C5_LastMessageKept ==
    wpc = "assembled" /\ Len(request.messages) > 0
        => /\ Len(optimized.messages) > 0
           /\ Last(optimized.messages) = Last(request.messages)

\* C6: the output of assemble has at most as many messages as the request,
\* with equality if and only if the intent is tool_use or the request has at
\* most preserve_last_n + 1 messages.
C6_LengthIff ==
    wpc = "assembled"
        => /\ Len(optimized.messages) <= Len(request.messages)
           /\ (Len(optimized.messages) = Len(request.messages)
                <=> (intent = TOOL_USE
                     \/ Len(request.messages) <= asmCfg.preserve_last_n + 1))

\* C7: every message j with should_preserve true and j < recent_start appears
\* in the assembled output, j = 0 included and however many are flagged, and
\* such messages keep their relative order.
C7_FlaggedKept ==
    wpc = "assembled"
        => LET rs == RecentStart(asmCfg, Len(request.messages), _select_strategy(intent))
               J == {j \in 0..(Len(request.messages) - 1) : FlagAt(flags, j) /\ j < rs}
               PosOf(j) == CHOOSE k \in 1..Len(optimized.messages) :
                               optimized.messages[k] = request.messages[j + 1]
           IN  /\ \A j \in J : InOutput(j)
               /\ \A j1, j2 \in J : j1 < j2 => PosOf(j1) < PosOf(j2)

\* C9: for intent tool_use assemble returns the request unchanged: the same
\* messages in the same order and the same model, tools, tool_choice,
\* temperature, max_tokens and stream.
C9_ToolUsePassthrough ==
    wpc = "assembled" /\ intent = TOOL_USE => optimized = request

\* C9 witness: a tool_use request that the window would have shortened was
\* returned as it came.
C9_Witness ==
    /\ wpc = "assembled"
    /\ intent = TOOL_USE
    /\ Len(apply(asmCfg, request.messages, flags, MultStandard)) < Len(request.messages)
    /\ optimized = request
    /\ optimized.tools = <<"f">>

\* The window before truncation: the leading system message, the flagged
\* messages of 1..recent_start-1 and the messages from recent_start on.
UntruncatedWindow ==
    LET msgs == request.messages
        rs == RecentStart(asmCfg, Len(msgs), _select_strategy(intent))
        keep == {k \in 1..Len(msgs) :
                    \/ (k = 1 /\ msgs[1].role = "system")
                    \/ (k - 1 >= 1 /\ k - 1 < rs /\ FlagAt(flags, k - 1))
                    \/ k - 1 >= rs}
        KeptAt(k) == k \in keep
    IN  SelectSeq([k \in 1..Len(msgs) |-> [at |-> k, msg |-> msgs[k]]],
                  LAMBDA e : KeptAt(e.at))

\* The last k entries of s, none when k = 0.
Suffix(s, k) == SubSeq(s, Len(s) - Min(k, Len(s)) + 1, Len(s))

\* floor(max_messages * w) of the current run.
Cap == IntTimes(asmCfg.max_messages, _select_strategy(intent))

\* C11: for a non-passthrough request longer than preserve_last_n + 1 the
\* assembled output has at most floor(max_messages * w) messages, and when
\* the untruncated window is longer than that, the output is the system
\* message (if any) followed by the last floor(max_messages * w) - 1
\* entries of the untruncated window.
C11_TruncationCap ==
    (/\ wpc = "assembled"
     /\ intent /= TOOL_USE
     /\ Len(request.messages) > asmCfg.preserve_last_n + 1)
        => LET win == [k \in 1..Len(UntruncatedWindow) |-> UntruncatedWindow[k].msg]
               sys == IF request.messages[1].role = "system"
                      THEN <<request.messages[1]>> ELSE <<>>
           IN  /\ Len(optimized.messages) <= Cap
               /\ Len(win) > Cap
                    => optimized.messages = sys \o Suffix(win, Cap - 1)

RECURSIVE IsSubsequence(_, _)
IsSubsequence(out, inp) ==
    IF out = <<>> THEN TRUE
    ELSE IF inp = <<>> THEN FALSE
    ELSE IF Head(out) = Head(inp) THEN IsSubsequence(Tail(out), Tail(inp))
    ELSE IsSubsequence(out, Tail(inp))

\* C36: the messages of assemble's output form a subsequence of the
\* request's messages: every output message is an input message, no input
\* message appears twice and the order is kept, for every intent, flag map
\* and configuration.
C36_OutputIsSubsequence ==
    wpc = "assembled" => IsSubsequence(optimized.messages, request.messages)

(***************************************************************************)
(* Claims on the classifier, checked under SpecClassify.                   *)
(***************************************************************************)

\* The request carries tools, or one of its messages carries tool_calls or a
\* tool_call_id.
ToolBearing ==
    \/ request.tools /= <<>>
    \/ \E k \in 1..Len(request.messages) :
        \/ request.messages[k].tool_calls /= <<>>
        \/ request.messages[k].tool_call_id /= NoneStr

\* C13: a request with tools, or with any message carrying tool_calls or a
\* tool_call_id, is classified tool_use whatever its contents are, also
\* when its last user message is empty or it has no user message.
C13_ToolBearingIsToolUse ==
    (wpc = "classified" /\ ToolBearing) => intent = TOOL_USE

\* The lowercased content of the last user-role message, empty when that
\* content is empty or None or there is no user message.
LastUserContent ==
    LET U == {k \in 1..Len(request.messages) : request.messages[k].role = "user"}
    IN  IF U = {} THEN <<>>
        ELSE LET last == CHOOSE k \in U : \A j \in U : j <= k
                 c == request.messages[last].content
             IN  IF c = NoneContent THEN <<>> ELSE Lower(c)

\* C14: a request that is not tool-bearing is classified from its last
\* user message alone: coding if the lowercased content has a coding
\* keyword, else retrieval on a retrieval keyword, else document on a
\* document keyword, else unknown if the content is empty or there is no
\* user message, else casual.
C14_KeywordOrder ==
    (wpc = "classified" /\ ~ToolBearing)
        => intent =
            IF \E k \in 1..Len(LastUserContent) : LastUserContent[k] \in CodingWords
                THEN CODING
            ELSE IF \E k \in 1..Len(LastUserContent) : LastUserContent[k] \in RetrievalWords
                THEN RETRIEVAL
            ELSE IF \E k \in 1..Len(LastUserContent) : LastUserContent[k] \in DocumentWords
                THEN DOCUMENT
            ELSE IF LastUserContent = <<>> THEN UNKNOWN
            ELSE CASUAL

\* C14 witness: a last user message holding a retrieval keyword before a
\* coding keyword, after an earlier user message with a document keyword,
\* was classified coding.
C14_Witness ==
    /\ wpc = "classified"
    /\ ~ToolBearing
    /\ Len(request.messages) = 2
    /\ request.messages[1].content = <<"readme", "1">>
    /\ request.messages[2].content = <<"remember", "fix", "2">>
    /\ intent = CODING

(***************************************************************************)
(* Claims on the sanitizer, checked under SpecSanitize.                    *)
(***************************************************************************)
\* A message is tool-bearing iff its tool_calls or tool_call_id is non-empty.
ToolBearingMessage(m) == TruthyList(m.tool_calls) \/ TruthyStr(m.tool_call_id)

\* A message is code-bearing iff its content holds a code marker.
CodeBearingMessage(m) == Contains(ContentOrEmpty(m.content), CodeWords)

\* C24: sanitize returns flags for every message index; has_tool_call is
\* true iff the message is tool-bearing, and should_preserve iff it is
\* tool-bearing or code-bearing with content longer than 500 characters.
C24_ToolFlagIffToolBearing ==
    wpc = "sanitized"
        => /\ DOMAIN sanitized = 0..(Len(request.messages) - 1)
           /\ \A idx \in DOMAIN sanitized :
                LET m == request.messages[idx + 1]
                IN  /\ sanitized[idx].has_tool_call <=> ToolBearingMessage(m)
                    /\ sanitized[idx].should_preserve
                            <=> \/ ToolBearingMessage(m)
                                \/ /\ CodeBearingMessage(m)
                                   /\ ContentLen(ContentOrEmpty(m.content)) > PreserveCodeLen

(***************************************************************************)
(* Claims on the provider registry, checked under SpecRegistry.            *)
(***************************************************************************)

\* C15: whatever add, remove, set_default and update calls came before, a
\* get_provider_for_model call returns no provider or an enabled one, also
\* when it falls back to the default provider.
C15_NeverDisabled ==
    lookup /= NoLookup
        => (lookup.result = NoProvider \/ lookup.result.enabled)

\* C16: get_provider_for_model(m) returns (1) the provider whose id is the
\* text before the first colon of m when that provider is registered and
\* enabled, whatever its models list holds; (2) otherwise the first enabled
\* provider in insertion order whose models list contains m; (3) otherwise
\* the default provider.
C16_ResolutionOrder ==
    lookup /= NoLookup
        => LET m == lookup.model
               provs == registry.providers
               named == {k \in 1..Len(provs) :
                            Len(m) >= 2 /\ provs[k].id = m[1] /\ provs[k].enabled}
               listed == {k \in 1..Len(provs) :
                            provs[k].enabled
                            /\ \E j \in 1..Len(provs[k].models) : provs[k].models[j] = m}
               dflt == {k \in 1..Len(provs) : provs[k].id = registry.default}
           IN  IF named /= {}
               THEN \E k \in named : lookup.result = provs[k]
               ELSE IF listed /= {}
               THEN \E k \in listed : /\ lookup.result = provs[k]
                                      /\ \A j \in listed : k <= j
               ELSE IF dflt /= {}
               THEN \E k \in dflt : lookup.result = provs[k]
               ELSE lookup.result = NoProvider

\* C16 witness: "kimi:moon" went to the enabled provider kimi, which does
\* not list it, although openai, inserted first, enabled and the default,
\* lists "kimi:moon".
C16_Witness ==
    /\ lookup /= NoLookup
    /\ lookup.model = <<"kimi", "moon">>
    /\ Len(registry.providers) = 2
    /\ registry.providers[1].id = "openai"
    /\ registry.providers[1].enabled
    /\ ListsModel(registry.providers[1], lookup.model)
    /\ registry.default = "openai"
    /\ ~ListsModel(registry.providers[2], lookup.model)
    /\ lookup.result = registry.providers[2]

\* The listing is the one of the registry as it stands, and is not empty.
Listed == providerList /= NoListing /\ Len(providerList) = Len(registry.providers)

\* C25: the to_dict projection of a provider, and so list_providers, has
\* no api_key entry and does not depend on the key's value: it is the same
\* whatever the non-empty key is; has_api_key is true iff api_key is
\* non-empty.
C25_ApiKeyNeverListed ==
    Listed =>
        \A k \in 1..Len(providerList) :
            LET p == registry.providers[k]
                d == providerList[k]
            IN  /\ "api_key" \notin DOMAIN d
                /\ d.has_api_key <=> p.api_key /= ""
                /\ p.api_key /= ""
                        => \A key \in ApiKeys \ {""} : d = to_dict([p EXCEPT !.api_key = key])

\* A listing of two providers, one with a key and one without.
C25_Witness ==
    /\ Listed
    /\ Len(providerList) = 2
    /\ registry.providers[1].api_key = "sk-1"
    /\ registry.providers[2].api_key = ""
    /\ providerList[1].has_api_key
    /\ ~providerList[2].has_api_key

\* The default is none exactly when the registry is empty, and otherwise
\* names a registered provider.
DefaultRegistered(reg) ==
    /\ reg.default = NoneStr <=> reg.providers = <<>>
    /\ reg.default /= NoneStr => KnownProvider(reg, reg.default)

\* C37: after any sequence of add_provider, remove_provider and set_default
\* calls the default provider id is none if and only if the registry is
\* empty, and otherwise it is the id of a registered provider; set_default
\* and remove_provider on an unknown id return false and change nothing.
C37_DefaultRegistered ==
    [][/\ DefaultRegistered(registry)
       /\ DefaultRegistered(registry')
       /\ (/\ lastOp'.op \in {"remove_provider", "set_default"}
           /\ ~KnownProvider(registry, lastOp'.id))
            => (~lastOp'.ok /\ registry' = registry)
       /\ (/\ lastOp'.op \in {"remove_provider", "set_default"}
           /\ KnownProvider(registry, lastOp'.id))
            => lastOp'.ok]_vars

\* One of two registered providers has just been removed and the one left
\* is the default.
C37_Witness ==
    /\ lastOp = CalledWith("remove_provider", "kimi", TRUE)
    /\ Len(registry.providers) = 1
    /\ registry.default = "openai"

(***************************************************************************)
(* Claims on the upstream client, checked under SpecClient.                *)
(***************************************************************************)
\* The attempts of the forward call in progress, or just ended
Attempts == Len(client.statuses)

InForward == client.pc \in {"attempting", "returned", "raised"}

\* C17: a 4xx response is never retried: an attempt answered 4xx is the
\* last attempt of its forward call, and forward ends by raising after it.
C17_NoRetryOn4xx ==
    InForward =>
        /\ \A k \in 1..Attempts :
                client.statuses[k] = "4xx" => k = Attempts
        /\ (Attempts >= 1 /\ client.statuses[Attempts] = "4xx")
                => client.pc = "raised"

AllTransient ==
    \A k \in 1..Attempts : client.statuses[k] \in {"5xx", "transport"}

\* C18: when every attempt fails with a 5xx or a transport error, forward
\* raises after max_retries + 1 attempts of the routed provider, and not
\* before; an attempt answered 2xx is the last one and forward returns.
C18_RetriesAreMaxRetries ==
    InForward =>
        /\ (client.pc = "raised" /\ AllTransient /\ client.provider /= NoProvider)
                => Attempts = client.provider.max_retries + 1
        /\ (client.pc = "attempting" /\ AllTransient /\ client.provider /= NoProvider)
                => Attempts <= client.provider.max_retries
        /\ \A k \in 1..Attempts :
                client.statuses[k] = "2xx" => k = Attempts /\ client.pc = "returned"

\* The request of the last attempt was built for a model 'p:s' routed to a
\* provider.
PrefixedAndRouted ==
    /\ InForward
    /\ Attempts >= 1
    /\ client.provider /= NoProvider
    /\ HasPrefix(client.payload.model)

StrippedOrKept ==
    /\ client.body.model = StripPrefix(client.payload.model)
            <=> Head(client.payload.model) = client.provider.id
    /\ Head(client.payload.model) /= client.provider.id
            => client.body.model = client.payload.model
    /\ client.url = client.provider.base_url \o <<"/chat/completions">>

\* C19 as stated: for a model 'p:s' routed to provider P, the body sent has
\* model 's' iff p = P.id and the unchanged model otherwise, and the url is
\* P.base_url + '/chat/completions'.
C19_PrefixStripping ==
    PrefixedAndRouted => StrippedOrKept

\* C19 amended: the same, for a provider whose extra_body has no "model"
\* entry; extra_body is merged into the body after the stripping and wins.
C19_PrefixStripping_NoModelOverride ==
    (PrefixedAndRouted /\ "model" \notin DOMAIN client.provider.extra_body)
        => StrippedOrKept

\* 'kimi:moon' went to the kimi url with model 'moon', through a provider
\* that merges another key into the body.
C19_Witness ==
    /\ PrefixedAndRouted
    /\ client.payload.model = <<"kimi", "moon">>
    /\ client.provider.id = "kimi"
    /\ client.provider.extra_body = [top_p |-> "0.9"]
    /\ client.body.model = <<"moon">>
    /\ client.body.top_p = "0.9"
    /\ client.url = <<"https://", "kimi", "/v1", "/chat/completions">>

(***************************************************************************)
(* Claims on breaker-guarded calls, checked under SpecGuarded.             *)
(***************************************************************************)
\* The breaker's records so far
Recorded(b) == <<b.total_successes, b.total_failures>>

\* C21: in every CircuitBreakerStrategy.execute call the breaker records at
\* most one outcome, the primary operation's: the admission records nothing
\* and the primary runs only if can_execute returned true; leaving the
\* primary records one success when it returned, one failure when it
\* raised; the fallback, whatever its outcome, leaves the breaker as it is.
C21_OnlyPrimaryRecorded ==
    [][\A c \in Callers :
        LET a == strat.caller[c]
            b == strat'.caller[c]
        IN  b.site = "execute" =>
              /\ (a.pc = "idle" /\ b.pc /= "idle")
                    => /\ Recorded(cb') = Recorded(cb)
                       /\ b.pc = "primary" <=> can_execute(cfg, cb, now).ok
                       /\ ~can_execute(cfg, cb, now).ok => cb' = cb
              /\ (a.pc = "primary" /\ b.pc /= "primary")
                    => \/ /\ b.path = "returned"
                          /\ Recorded(cb') = <<cb.total_successes + 1, cb.total_failures>>
                       \/ /\ b.path = "raised"
                          /\ Recorded(cb') = <<cb.total_successes, cb.total_failures + 1>>
                       \/ /\ b.path = "cancelled"
                          /\ cb' = cb
              /\ (a.pc = "fallback" /\ b.pc /= "fallback")
                    => b.pc = "done" /\ cb' = cb]_vars

\* One execute() whose primary raised and whose fallback raised too: one
\* failure on the breaker.
C21_Witness ==
    \E c \in Callers :
        /\ strat.caller[c].site = "execute"
        /\ strat.caller[c].pc = "done"
        /\ strat.caller[c].path = "raised"
        /\ strat.caller[c].fallback_outcome = "raised"
        /\ strat.calls = 1
        /\ Recorded(cb) = <<0, 1>>

\* C22: a task cancelled while its guarded call is in flight, in execute()
\* or in the memory retrieval of process(), records nothing: the step of
\* the cancellation leaves the breaker as it is, which for a call that ran
\* alone is the breaker as the admission left it.
C22_CancelledNotRecorded ==
    [][\A c \in Callers :
        LET a == strat.caller[c]
            b == strat'.caller[c]
        IN  (a.pc = "primary" /\ b.pc = "done" /\ b.path = "cancelled")
                => /\ cb' = cb
                   /\ strat.calls = 1 => cb' = a.admitted]_vars

\* Two probes admitted in half-open, one by execute() and one by process(),
\* have both been cancelled and the breaker is as the second admission
\* left it.
C22_Witness ==
    \E c, d \in Callers :
        /\ strat.caller[c].site = "execute"
        /\ strat.caller[d].site = "process"
        /\ strat.caller[c].pc = "done"
        /\ strat.caller[d].pc = "done"
        /\ strat.caller[c].path = "cancelled"
        /\ strat.caller[d].path = "cancelled"
        /\ strat.caller[c].admitted.state = HALF_OPEN
        /\ strat.caller[d].admitted.state = HALF_OPEN
        /\ (cb = strat.caller[c].admitted \/ cb = strat.caller[d].admitted)

\* The guarded call a was admitted in the half-open episode breaker b is in.
AdmittedInEpisode(a, b) ==
    /\ a.admitted.state = HALF_OPEN
    /\ a.admitted.state_changes = b.state_changes

\* C32: a half-open breaker changes state only because of outcomes of calls
\* admitted during the current half-open episode: a record_success or
\* record_failure arriving late from a call admitted before the breaker
\* opened neither counts toward success_threshold nor reopens the breaker.
C32_LateOutcomesIgnored ==
    [][\A c \in Callers :
        LET a == strat.caller[c]
            b == strat'.caller[c]
        IN  (/\ a.pc = "primary"
             /\ b.path \in {"returned", "raised"}
             /\ cb.state = HALF_OPEN
             /\ ~AdmittedInEpisode(a, cb))
                => /\ cb'.state = HALF_OPEN
                   /\ cb'.success_count = cb.success_count]_vars

(***************************************************************************)
(* Claims on recovery, checked under SpecRecovery.                         *)
(***************************************************************************)

\* C31: a breaker never stays for ever where every can_execute returns
\* false: while the clock advances and the tasks keep asking, from open and
\* from half_open some later can_execute returns true, also when admitted
\* probe calls are cancelled and record no outcome.
C31_EventuallyAdmits ==
    (cb.state \in {OPEN, HALF_OPEN}) ~> (lastOp = Called("can_execute", TRUE))

\* C31, the part that the code keeps: an open breaker is left once the
\* recovery timeout has passed and a task asks.
C31_OpenIsLeft ==
    (cb.state = OPEN) ~> (cb.state = HALF_OPEN)

\* C31, where it fails: half-open, every slot taken, no admitted call in
\* flight. No step changes the breaker from here.
C31_Stuck ==
    /\ cb.state = HALF_OPEN
    /\ cb.half_open_calls >= cfg.half_open_max_calls
    /\ \A c \in Callers : strat.caller[c].pc = "idle"

C31_StuckForEver ==
    [][C31_Stuck => (cb' = cb /\ C31_Stuck')]_vars

(***************************************************************************)
(* Claims on the memory retriever, checked under SpecRetrieve.             *)
(***************************************************************************)
\* The test a result has to meet, in the form its backend reports
MeetsThreshold(r, similarity_threshold) ==
    /\ "similarity" \in DOMAIN r => r.similarity >= similarity_threshold
    /\ "distance" \in DOMAIN r => r.distance <= 100 - similarity_threshold

\* C23: retrieve returns a store result only if it meets the threshold in
\* the form its backend reports (similarity >= threshold, distance <=
\* 1 - threshold); the results failing their test are filtered out.
C23_ThresholdFilter ==
    mem.pc = "returned"
        => \A k \in 1..Len(mem.filtered) :
                MeetsThreshold(mem.filtered[k], mem.similarity_threshold)

(***************************************************************************)
(* Claims on the durable store, checked under SpecStore.                   *)
(***************************************************************************)

\* C38: with the native vector index available, after any sequence of add,
\* delete and clear the index holds exactly one entry per stored memory,
\* keyed to that memory's row and holding that memory's embedding; search
\* returns only stored memories, each once and ranked by its own embedding.
C38_IndexMatchesStore ==
    mem.pc = "store" =>
        /\ Len(mem.index) = Len(mem.rows)
        /\ \A k \in 1..Len(mem.rows) :
                \E j \in 1..Len(mem.index) :
                    mem.index[j] = [rowid |-> mem.rows[k].rowid,
                                    embedding |-> mem.rows[k].embedding]
        /\ mem.searched =>
                /\ Len(mem.found) = Min(DefaultTopK, Len(mem.rows))
                /\ \A k \in 1..Len(mem.found) :
                        \E j \in 1..Len(mem.rows) :
                            /\ mem.rows[j].id = mem.found[k].id
                            /\ mem.found[k].distance
                                    = Distance(mem.query, mem.rows[j].embedding)

\* C38 for the searches alone: what search returns are stored memories,
\* each ranked by its own embedding.
C38_SearchRanksOwnEmbedding ==
    (mem.pc = "store" /\ mem.searched) =>
        \A k \in 1..Len(mem.found) :
            \E j \in 1..Len(mem.rows) :
                /\ mem.rows[j].id = mem.found[k].id
                /\ mem.found[k].distance = Distance(mem.query, mem.rows[j].embedding)

(***************************************************************************)
(* Claims on the traffic analyzer, checked under SpecTraffic.              *)
(***************************************************************************)
\* The entry analyze_request has just recorded, and the call it came from
Newest == traffic.history[Len(traffic.history)]

NewestCall == CallOf(Newest.request_id)

\* C26: the RequestMetrics analyze_request records has tokens_saved =
\* max(0, original_tokens - optimized_tokens) >= 0 and optimization_applied
\* = (optimization_enabled and tokens_saved > 0), so optimization_applied
\* implies tokens_saved > 0, also when the optimized messages are the
\* larger ones.
C26_TokensSaved ==
    (traffic.pc = "on" /\ traffic.arrivals >= 1)
        => /\ Newest.request_id = traffic.arrivals
           /\ Newest.original_tokens = _count_message_tokens(NewestCall.pair.original)
           /\ Newest.optimized_tokens = _count_message_tokens(NewestCall.pair.optimized)
           /\ Newest.tokens_saved >= 0
           /\ \/ Newest.tokens_saved = Newest.original_tokens - Newest.optimized_tokens
              \/ /\ Newest.tokens_saved = 0
                 /\ Newest.original_tokens < Newest.optimized_tokens
           /\ Newest.optimization_applied
                <=> (NewestCall.optimization_enabled /\ Newest.tokens_saved > 0)
           /\ Newest.optimization_applied => Newest.tokens_saved > 0

\* A call with optimization enabled whose optimized messages are larger
\* than the original ones: nothing saved, optimization not applied.
C26_Witness ==
    /\ traffic.pc = "on"
    /\ traffic.arrivals >= 1
    /\ NewestCall.optimization_enabled
    /\ Newest.optimized_tokens > Newest.original_tokens
    /\ Newest.tokens_saved = 0
    /\ ~Newest.optimization_applied

\* C28: the history holds at most 1000 entries, the most recent ones in
\* arrival order: the entries evicted are the oldest.
C28_BoundedHistory ==
    traffic.pc = "on"
        => /\ Len(traffic.history) = Min(traffic.arrivals, MaxHistory)
           /\ \A k \in 1..Len(traffic.history) :
                traffic.history[k].request_id
                    = traffic.arrivals - Len(traffic.history) + k

\* Two calls beyond the bound: the history starts at the third call.
C28_Witness ==
    /\ traffic.pc = "on"
    /\ traffic.arrivals = MaxHistory + 2
    /\ Len(traffic.history) = MaxHistory
    /\ traffic.history[1].request_id = 3
    /\ traffic.history[MaxHistory].request_id = MaxHistory + 2

\* C39: for every n >= 0, get_recent_metrics(n) returns at most n entries,
\* namely the min(n, history length) most recently recorded ones in
\* recording order.
C39_RecentMetrics ==
    (traffic.pc = "on" /\ traffic.recent.asked) =>
        LET n == traffic.recent.n
            got == traffic.recent.returned
            len == Len(traffic.history)
        IN  /\ Len(got) = Min(n, len)
            /\ \A k \in 1..Len(got) : got[k] = traffic.history[len - Len(got) + k]

(***************************************************************************)
(* Claims on the pipeline, checked under SpecPipe.                         *)
(***************************************************************************)

\* C3: a process() call on a request classified retrieval reaches
\* client.forward however the pipeline was built and whatever the memory
\* path did: the call never ends without an upstream attempt.
C3_MemoryNeverFailsRequest ==
    (pipe.pc = "done" /\ pipe.mode = "process" /\ intent = RETRIEVAL)
        => (fwd.attempts >= 1 /\ pipe.outcome \in {"returned", "forward_error"})

\* C4: once circuit_breaker_threshold consecutive forwards have failed, a
\* call made before circuit_breaker_timeout has elapsed since the last
\* failure sends no attempt upstream.
C4_ForwardGuarded ==
    [][(/\ fwd.failed_calls >= pipe.settings.circuit_breaker_threshold
        /\ now - fwd.last_failure < pipe.settings.circuit_breaker_timeout)
       => fwd'.attempts <= fwd.attempts]_vars

\* What the assembler handed to the injection step of the current call.
Assembled == OptimizeStream(pipe.settings, asmCfg, request, intent, flags)

\* C8: in the payload process() hands to client.forward, a request that
\* starts with a system message still starts with a system message whose
\* content is the original or the original followed by "\n\n" and the
\* memory context; and when the assembled list has no system message and
\* the memory context is non-empty, a system message holding the context
\* stands at index 0 with the assembled messages after it in their order.
C8_SystemMessageAndInjection ==
    (pipe.pc = "forwarding" /\ pipe.mode = "process")
        => /\ request.messages[1].role = "system"
                => /\ Len(pipe.payload.messages) >= 1
                   /\ pipe.payload.messages[1].role = "system"
                   /\ pipe.payload.messages[1].content \in
                        {request.messages[1].content,
                         ContentOrEmpty(request.messages[1].content)
                            \o <<"\n\n">> \o pipe.memory_context}
           /\ (SystemIdx(Assembled.messages) = 0 /\ pipe.memory_context /= <<>>)
                => pipe.payload.messages =
                        <<[role |-> "system", content |-> pipe.memory_context]>>
                            \o _to_payload(Assembled).messages

\* The dict of a message with every field that is set.
MessageDict(m) ==
    WithKey(WithKey(WithKey([role |-> m.role, content |-> m.content],
                            "name", TruthyStr(m.name), m.name),
                    "tool_calls", TruthyList(m.tool_calls), m.tool_calls),
            "tool_call_id", TruthyStr(m.tool_call_id), m.tool_call_id)

\* C10: for a tool_use request the payload process() hands to
\* client.forward has the request's messages, as many and in the same
\* order, each with its role, content, name, tool_calls and tool_call_id,
\* and the request's tools.
C10_ToolUsePayloadIdentical ==
    (pipe.pc = "forwarding" /\ pipe.mode = "process" /\ intent = TOOL_USE)
        => /\ Len(pipe.payload.messages) = Len(request.messages)
           /\ \A k \in 1..Len(request.messages) :
                pipe.payload.messages[k] = MessageDict(request.messages[k])
           /\ TruthyList(request.tools)
                => ("tools" \in DOMAIN pipe.payload /\ pipe.payload.tools = request.tools)

C27_EveryProcessAccounted ==
    [][IF pipe.pc /= "done" /\ pipe'.pc = "done" /\ pipe'.mode = "process"
       THEN pipe'.accounted = pipe.accounted + 1
       ELSE pipe'.accounted = pipe.accounted]_vars

\* The memory contexts the retrieval step of process() can end with for the
\* request under work in the current pipeline state; none when process()
\* ends in that step.
ProcessContexts ==
    IF intent = RETRIEVAL /\ HasRetriever(pipe.ctor)
    THEN IF ~HasCircuitAttribute(pipe.ctor) THEN {}
         ELSE IF /\ HasCircuit(pipe.ctor) => can_execute(cfg, cb, now).ok
                 /\ HasQuery(request)
              THEN MemoryContexts
              ELSE {<<>>}
    ELSE {<<>>}

\* C40: for the same request and the same pipeline state stream() sends
\* upstream the messages process() sends: the same sanitizing,
\* classification, windowing and, for retrieval intent with a configured
\* retriever, the same memory-context injection.
C40_StreamSendsWhatProcessSends ==
    (pipe.pc = "forwarding" /\ pipe.mode = "stream")
        => \A ctx \in ProcessContexts :
                pipe.payload.messages
                    = _to_payload(Optimize(pipe.settings, asmCfg, request, intent,
                                           flags, ctx)).messages

====
